---------------------------- MODULE Spec2Model ----------------------------
(***************************************************************************)
(* Model of github.com/rsb/conf: annotation parsing (tag.go), field        *)
(* discovery and key derivation (field.go), type decoding (field.go) and   *)
(* the batch operations built on them (conf.go).                           *)
(*                                                                         *)
(* A Go string is a sequence of one-character strings, so that splitting,  *)
(* trimming, case mapping and parsing are computed character by character. *)
(***************************************************************************)
EXTENDS Integers, Sequences, FiniteSets, TLC

(***************************************************************************)
(* Character classes (unicode.IsLower / IsUpper / IsDigit on ASCII).       *)
(***************************************************************************)
LowerChars == <<"a", "b", "c", "d", "e", "f", "g", "h", "i", "j", "k", "l", "m", "n", "o", "p", "q", "r", "s", "t", "u", "v", "w", "x", "y", "z">>

UpperChars == <<"A", "B", "C", "D", "E", "F", "G", "H", "I", "J", "K", "L", "M", "N", "O", "P", "Q", "R", "S", "T", "U", "V", "W", "X", "Y", "Z">>

DigitChars == <<"0", "1", "2", "3", "4", "5", "6", "7", "8", "9">>

\* position of the first occurrence of c in chars from position i on, 0 when
\* there is none
RECURSIVE IndexFrom(_, _, _)
IndexFrom(c, chars, i) ==
  IF i > Len(chars) THEN 0
  ELSE IF chars[i] = c THEN i
  ELSE IndexFrom(c, chars, i + 1)

IndexIn(c, chars) == IndexFrom(c, chars, 1)

LowerSet == {LowerChars[i] : i \in 1..Len(LowerChars)}

UpperSet == {UpperChars[i] : i \in 1..Len(UpperChars)}

DigitSet == {DigitChars[i] : i \in 1..Len(DigitChars)}

IsLower(c) == c \in LowerSet

IsUpper(c) == c \in UpperSet

IsDigit(c) == c \in DigitSet

IsSpace(c) == c \in {" ", "\t", "\n", "\r"}

classLower == 0

classUpper == 1

classNumber == 2

classOther == 3

charClass(r) ==
  IF IsLower(r) THEN classLower
  ELSE IF IsUpper(r) THEN classUpper
  ELSE IF IsDigit(r) THEN classNumber
  ELSE classOther

(***************************************************************************)
(* The functions of package strings that the code calls.                   *)
(***************************************************************************)
UpperOf == [c \in LowerSet |-> UpperChars[IndexIn(c, LowerChars)]]

LowerOf == [c \in UpperSet |-> LowerChars[IndexIn(c, UpperChars)]]

ToUpperChar(c) == IF IsLower(c) THEN UpperOf[c] ELSE c

ToUpper(s) == [i \in 1..Len(s) |-> ToUpperChar(s[i])]

RECURSIVE Join(_, _)
Join(parts, sep) ==
  IF Len(parts) = 0 THEN <<>>
  ELSE IF Len(parts) = 1 THEN parts[1]
  ELSE parts[1] \o sep \o Join(Tail(parts), sep)

\* position of the first occurrence of character c in s, 0 when absent
IndexChar(s, c) == IndexIn(c, s)

\* strings.Split(s, sep) for a one-character separator
RECURSIVE Split(_, _)
Split(s, c) ==
  LET i == IndexChar(s, c)
  IN IF i = 0 THEN <<s>>
     ELSE <<SubSeq(s, 1, i - 1)>> \o Split(SubSeq(s, i + 1, Len(s)), c)

\* strings.SplitN(s, sep, 2)
SplitN2(s, c) ==
  LET i == IndexChar(s, c)
  IN IF i = 0 THEN <<s>>
     ELSE <<SubSeq(s, 1, i - 1), SubSeq(s, i + 1, Len(s))>>

RECURSIVE TrimLeftSet(_, _)
TrimLeftSet(s, cut) ==
  IF Len(s) > 0 /\ s[1] \in cut THEN TrimLeftSet(Tail(s), cut) ELSE s

RECURSIVE TrimRightSet(_, _)
TrimRightSet(s, cut) ==
  IF Len(s) > 0 /\ s[Len(s)] \in cut
  THEN TrimRightSet(SubSeq(s, 1, Len(s) - 1), cut)
  ELSE s

\* strings.Trim(s, cutset)
Trim(s, cut) == TrimRightSet(TrimLeftSet(s, cut), cut)

\* a variant that trims nothing
TrimSpace_None(s) == s

TrimSpace(s) == Trim(s, {" ", "\t", "\n", "\r"})

HasPrefixAt(s, i, sub) ==
  /\ i + Len(sub) - 1 <= Len(s)
  /\ \A k \in 1..Len(sub) : s[i + k - 1] = sub[k]

\* strings.Contains(s, sub)
Contains(s, sub) == \E i \in 1..(Len(s) + 1) : HasPrefixAt(s, i, sub)

\* strings.Replace(s, old, new, -1) for one-character old and new
ReplaceChar(s, old, new) == [i \in 1..Len(s) |-> IF s[i] = old THEN new ELSE s[i]]

(***************************************************************************)
(* Errors (github.com/rsb/failure): an error is the chain of its layers,   *)
(* outermost first; a layer is a message format and its arguments.         *)
(* failure.Wrap(err, msg, args) puts a layer in front of err.              *)
(***************************************************************************)
NoErr == <<>>

Failure(msg, args) == <<[msg |-> msg, args |-> args]>>

Wrap(err, msg, args) == Failure(msg, args) \o err

IsErr(err) == err # NoErr

\* the error's text mentions the layer (assert.Contains on err.Error())
ErrContains(err, msg, args) ==
  \E i \in 1..Len(err) : err[i] = [msg |-> msg, args |-> args]

(***************************************************************************)
(* tag.go                                                                  *)
(***************************************************************************)
S_noprint == <<"n", "o", "-", "p", "r", "i", "n", "t">>

S_noprefix == <<"n", "o", "-", "p", "r", "e", "f", "i", "x">>

S_required == <<"r", "e", "q", "u", "i", "r", "e", "d">>

S_mask == <<"m", "a", "s", "k">>

S_default == <<"d", "e", "f", "a", "u", "l", "t">>

S_env == <<"e", "n", "v">>

S_mapOpen == <<"m", "a", "p", "(">>

S_listOpen == <<"l", "i", "s", "t", "(">>

ZeroTag ==
  [EnvVar |-> <<>>, Default |-> <<>>, IsDefault |-> FALSE, NoPrint |-> FALSE,
   NoPrefix |-> FALSE, Required |-> FALSE, Mask |-> FALSE]

isDefaultValueMapOrList(value) ==
  Contains(value, S_mapOpen) \/ Contains(value, S_listOpen)

\* regexp `\((.*?)\)` FindAllString: every match runs from a "(" to the first
\* ")" after it, and the search resumes behind the match
RECURSIVE FindAllParens(_)
FindAllParens(s) ==
  LET i == IndexChar(s, "(")
  IN IF i = 0 THEN <<>>
     ELSE LET rest == SubSeq(s, i + 1, Len(s))
              j == IndexChar(rest, ")")
          IN IF j = 0 THEN <<>>
             ELSE <<SubSeq(s, i, i + j)>> \o FindAllParens(SubSeq(rest, j + 1, Len(rest)))

normalizeDefaultValueMapOrList(value) ==
  IF value[Len(value)] # ")"
  THEN [value |-> <<>>, err |-> Failure("tag (default) invalid list or map syntax", <<>>)]
  ELSE LET matches == FindAllParens(value)
           inner == IF Len(matches) = 0 THEN value
                    ELSE Trim(Trim(matches[Len(matches)], {"("}), {")"})
       IN [value |-> ReplaceChar(ReplaceChar(inner, "|", ":"), ";", ","),
           err |-> NoErr]

\* one iteration of the loop over the comma-separated parts
ParseTagPart(tag, part) ==
  LET vals == SplitN2(part, ":")
      property == vals[1]
  IN IF Len(vals) = 1
     THEN [tag |-> IF property = S_noprint THEN [tag EXCEPT !.NoPrint = TRUE]
                   ELSE IF property = S_noprefix THEN [tag EXCEPT !.NoPrefix = TRUE]
                   ELSE IF property = S_required THEN [tag EXCEPT !.Required = TRUE]
                   ELSE IF property = S_mask THEN [tag EXCEPT !.Mask = TRUE]
                   ELSE tag,
           err |-> NoErr]
     ELSE LET value == TrimSpace(vals[2])
          IN IF value = <<>>
             THEN [tag |-> tag, err |-> Failure("tag (%q) missing a value", <<property>>)]
             ELSE IF property = S_default
             THEN IF isDefaultValueMapOrList(value)
                  THEN LET Normalized(n) ==
                             IF IsErr(n.err)
                             THEN [tag |-> [tag EXCEPT !.IsDefault = TRUE],
                                   err |-> Wrap(n.err, "normalizeDefaultValueMapOrList failed", <<>>)]
                             ELSE [tag |-> [tag EXCEPT !.IsDefault = TRUE, !.Default = n.value],
                                   err |-> NoErr]
                       IN Normalized(normalizeDefaultValueMapOrList(value))
                  ELSE [tag |-> [tag EXCEPT !.IsDefault = TRUE, !.Default = value],
                        err |-> NoErr]
             ELSE IF property = S_env
             THEN [tag |-> [tag EXCEPT !.EnvVar = value], err |-> NoErr]
             ELSE [tag |-> tag, err |-> NoErr]

RECURSIVE ParseTagParts(_, _)
ParseTagParts(tag, parts) ==
  IF Len(parts) = 0 THEN [tag |-> tag, err |-> NoErr]
  ELSE LET Continue(r) == IF IsErr(r.err) THEN r ELSE ParseTagParts(r.tag, Tail(parts))
       IN Continue(ParseTagPart(tag, parts[1]))

\* a variant that drops the error of a part
ParseTag_Lenient(t) ==
  IF t = <<>> THEN [tag |-> ZeroTag, err |-> NoErr]
  ELSE [tag |-> ParseTagParts(ZeroTag, Split(t, ",")).tag, err |-> NoErr]

ParseTag(t) ==
  IF t = <<>> THEN [tag |-> ZeroTag, err |-> NoErr]
  ELSE ParseTagParts(ZeroTag, Split(t, ","))

(***************************************************************************)
(* field.go: CamelSplit                                                    *)
(***************************************************************************)
\* the loop body for index i (1-based) with the loop's locals
RECURSIVE CamelLoop(_, _, _, _, _)
CamelLoop(runes, i, lastClass, lastIdx, out) ==
  IF i > Len(runes) THEN out
  ELSE
    LET class == charClass(runes[i])
        \* lastIdx and i are 1-based here: runes[lastIdx:i] is SubSeq(lastIdx, i-1)
        split ==
          IF class # lastClass
          THEN IF lastClass = classUpper /\ class # classNumber
               THEN IF i - lastIdx > 1
                    THEN [out |-> Append(out, SubSeq(runes, lastIdx, i - 2)), lastIdx |-> i - 1]
                    ELSE [out |-> out, lastIdx |-> lastIdx]
               ELSE [out |-> Append(out, SubSeq(runes, lastIdx, i - 1)), lastIdx |-> i]
          ELSE [out |-> out, lastIdx |-> lastIdx]
        out2 == IF i = Len(runes)
                THEN Append(split.out, SubSeq(runes, split.lastIdx, Len(runes)))
                ELSE split.out
    IN CamelLoop(runes, i + 1, class, split.lastIdx, out2)

\* a variant that never splits
CamelSplit_Whole(src) == IF src = <<>> THEN <<>> ELSE <<src>>

\* A string is a sequence of characters of one byte each; InvalidByte
\* stands for a byte that is no UTF-8 encoding, and ReplacementChar for
\* U+FFFD, which the conversion to runes puts in its place.
InvalidByte == "\\xff"

ReplacementChar == "\\ufffd"

\* []rune(src)
Runes(src) == [k \in 1..Len(src) |-> IF src[k] = InvalidByte THEN ReplacementChar ELSE src[k]]

CamelSplit(src) ==
  IF src = <<>> THEN <<>>
  ELSE IF Len(src) < 2 THEN <<src>>
  ELSE CamelLoop(Runes(src), 1, charClass(Runes(src)[1]), 1, <<>>)

(***************************************************************************)
(* Go types and values as reflect sees them.                               *)
(*   type   [kind, caps, elem, members]: caps is the set of custom         *)
(*          decoding methods of the type, elem the pointee type of a       *)
(*          pointer (a sequence of length one), members the declared       *)
(*          members of a struct                                            *)
(*   member [name, tag, exported, type]: tag is the raw `conf` annotation  *)
(*   value  string: its characters; int: an integer; bool: a boolean;      *)
(*          pointer: <<>> when nil, else <<pointee>>; struct: the          *)
(*          sequence of its members' values                                *)
(* A reflect.Value that addresses storage inside the caller's structure    *)
(* is the path of indices that leads to it, together with its type.        *)
(***************************************************************************)
Nil == <<>>

StringT == [kind |-> "string", caps |-> {}, elem |-> <<>>, members |-> <<>>]

IntT == [kind |-> "int", caps |-> {}, elem |-> <<>>, members |-> <<>>]

BoolT == [kind |-> "bool", caps |-> {}, elem |-> <<>>, members |-> <<>>]

PtrT(t) == [kind |-> "ptr", caps |-> {}, elem |-> <<t>>, members |-> <<>>]

StructT(caps, members) ==
  [kind |-> "struct", caps |-> caps, elem |-> <<>>, members |-> members]

Uint8T == [kind |-> "uint8", caps |-> {}, elem |-> <<>>, members |-> <<>>]

\* a slice holds the sequence of its elements; a []byte holds the bytes, one
\* character each
SliceT(t) == [kind |-> "slice", caps |-> {}, elem |-> <<t>>, members |-> <<>>]

\* a map is a function from its keys to its elements; key is its key type
MapT(k, t) == [kind |-> "map", caps |-> {}, elem |-> <<t>>, members |-> <<>>, key |-> <<k>>]

Member(name, tag, exported, type) ==
  [name |-> name, tag |-> tag, exported |-> exported, type |-> type]

\* reflect.Zero / reflect.New(t).Elem()
RECURSIVE Zero(_)
Zero(t) ==
  CASE t.kind = "string" -> <<>>
    [] t.kind = "int" -> 0
    [] t.kind = "bool" -> FALSE
    [] t.kind = "ptr" -> Nil
    [] t.kind = "struct" -> [i \in 1..Len(t.members) |-> Zero(t.members[i].type)]
    [] t.kind = "uint8" -> 0
    [] t.kind = "slice" -> <<>>
    [] t.kind = "map" -> <<>>

RECURSIVE GetAt(_, _)
GetAt(v, path) ==
  IF path = <<>> THEN v ELSE GetAt(v[Head(path)], Tail(path))

RECURSIVE SetAt(_, _, _)
SetAt(v, path, x) ==
  IF path = <<>> THEN x
  ELSE [v EXCEPT ![Head(path)] = SetAt(v[Head(path)], Tail(path), x)]

(***************************************************************************)
(* field.go: Fields and NewField                                           *)
(***************************************************************************)
InvalidSpecFailure == Failure("specification must be a struct pointer", <<>>)

Decode == "Decode"

Set == "Set"

UnmarshalText == "UnmarshalText"

UnmarshalBinary == "UnmarshalBinary"

\* interfaceFrom: the value's own method set, else that of its address; every
\* member of an addressable struct is addressable
\* a variant that finds no Decode method
DecoderFrom_Never(t) == FALSE

DecoderFrom(t) == Decode \in t.caps

\* a variant that finds no Set method
SetterFrom_Never(t) == FALSE

SetterFrom(t) == Set \in t.caps

TextUnmarshaler(t) == UnmarshalText \in t.caps

BinaryUnmarshaler(t) == UnmarshalBinary \in t.caps

\* A slice of strings is [arr, len, seen]: arr is its backing array, an
\* index into the arrays allocated during the call of Fields (heap), or 0
\* for an array no other slice shares; seen holds the elements the slice
\* showed when this value of it was made.  An array of the heap is as long
\* as its capacity, with "" in the slots not written yet.
NilSlice == [arr |-> 0, len |-> 0, seen |-> <<>>]

\* the slice over a new array of its own that holds elems
Fresh(elems) == [arr |-> 0, len |-> Len(elems), seen |-> elems]

\* the elements the slice shows now
Elems(heap, s) == IF s.arr = 0 THEN s.seen ELSE SubSeq(heap[s.arr], 1, s.len)

SliceCap(heap, s) == IF s.arr = 0 THEN s.len ELSE Len(heap[s.arr])

\* the capacity growslice chooses for newLen strings (below 256 elements;
\* up to 16 strings the size class holds exactly that many)
Grow(oldCap, newLen) == IF newLen > oldCap + oldCap THEN newLen ELSE oldCap + oldCap

\* append(s, segs...): writes behind the slice's elements into its backing
\* array when the capacity allows, and into a new, larger array otherwise
AppendSlice(heap, s, segs) ==
  IF Len(segs) = 0 THEN [heap |-> heap, slice |-> s]
  ELSE IF s.arr # 0 /\ s.len + Len(segs) <= SliceCap(heap, s)
  THEN [heap |-> [heap EXCEPT ![s.arr] =
                    [k \in 1..Len(@) |->
                       IF k > s.len /\ k <= s.len + Len(segs) THEN segs[k - s.len] ELSE @[k]]],
        slice |-> [arr |-> s.arr, len |-> s.len + Len(segs),
                   seen |-> Elems(heap, s) \o segs]]
  ELSE [heap |-> Append(heap,
                        [k \in 1..Grow(SliceCap(heap, s), s.len + Len(segs)) |->
                           IF k <= s.len THEN Elems(heap, s)[k]
                           ELSE IF k <= s.len + Len(segs) THEN segs[k - s.len]
                           ELSE <<>>]),
        slice |-> [arr |-> Len(heap) + 1, len |-> s.len + Len(segs),
                   seen |-> Elems(heap, s) \o segs]]

\* a variant that derives the key from the member's own name alone
NewField_OwnName(name, fieldKey, path, type, rawTag, opts) ==
  [Name |-> name,
   EnvKey |-> Fresh(CamelSplit(name)),
   envVar |-> ToUpper(Join(CamelSplit(name), <<"_">>)),
   path |-> path,
   type |-> type,
   ReflectTag |-> rawTag,
   Tag |-> opts]

NewField(name, fieldKey, path, type, rawTag, opts) ==
  LET envKey ==
        IF opts.EnvVar # <<>>
        THEN IF opts.NoPrefix
             THEN Fresh(Split(opts.EnvVar, "_"))
             ELSE Fresh(<<fieldKey.seen[1]>> \o Split(opts.EnvVar, "_"))
        ELSE fieldKey
  IN [Name |-> name,
      EnvKey |-> envKey,
      envVar |-> ToUpper(Join(envKey.seen, <<"_">>)),
      path |-> path,
      type |-> type,
      ReflectTag |-> rawTag,
      Tag |-> opts]

\* a variant in which an unexported member can be set as well
CanSet_Always(ftype) == TRUE

\* f.CanSet(): the members of the caller's structure are addressable, so a
\* member can be set when it is exported
CanSet(ftype) == ftype.exported

\* a variant that allocates behind every nil pointer, whatever it points to
RECURSIVE DerefLoop_AllocAll(_, _)
DerefLoop_AllocAll(t, v) ==
  IF t.kind # "ptr" THEN [type |-> t, val |-> v, sub |-> <<>>]
  ELSE LET w == IF v = Nil THEN <<Zero(t.elem[1])>> ELSE v
           r == DerefLoop_AllocAll(t.elem[1], w[1])
       IN [type |-> r.type, val |-> <<r.val>>, sub |-> <<1>> \o r.sub]

\* the loop `for f.Kind() == reflect.Ptr`: follows pointers from a member of
\* type t and value v; a nil pointer to a struct is set to a new zero struct,
\* a nil pointer to anything else ends the loop.  Yields the type reached,
\* the member's value after the loop and the path from the member to f.
RECURSIVE DerefLoop(_, _)
DerefLoop(t, v) ==
  IF t.kind # "ptr" THEN [type |-> t, val |-> v, sub |-> <<>>]
  ELSE IF v = Nil /\ t.elem[1].kind # "struct"
  THEN [type |-> t, val |-> v, sub |-> <<>>]
  ELSE LET w == IF v = Nil THEN <<Zero(t.elem[1])>> ELSE v
           r == DerefLoop(t.elem[1], w[1])
       IN [type |-> r.type, val |-> <<r.val>>, sub |-> <<1>> \o r.sub]

\* the loop over the members of the struct of type t and value v that lives
\* at path in the caller's structure; i is the next member, fields the result
\* so far, prefix the slice of the prefix segments and heap the arrays
\* allocated so far.  Yields the fields, the error, the struct's value
\* afterwards and the arrays.
RECURSIVE FieldsLoop(_, _, _, _, _, _, _)
FieldsLoop(t, v, path, prefix, i, fields, heap) ==
  IF i > Len(t.members) THEN [fields |-> fields, err |-> NoErr, val |-> v, heap |-> heap]
  ELSE
    LET ftype == t.members[i]
        confTags == ftype.tag
    IN IF ~CanSet(ftype) \/ confTags = <<"-">>
       THEN FieldsLoop(t, v, path, prefix, i + 1, fields, heap)
       ELSE
         LET fieldName == ftype.name
             parsed == ParseTag(confTags)
         IN IF IsErr(parsed.err)
            THEN [fields |-> fields,
                  err |-> Wrap(parsed.err, "parseTag failed (%s)", <<fieldName>>),
                  val |-> v, heap |-> heap]
            ELSE
              LET fieldOpts == parsed.tag
                  d == DerefLoop(ftype.type, v[i])
                  v1 == [v EXCEPT ![i] = d.val]
                  fpath == path \o <<i>> \o d.sub
                  \* k is what `fieldKey := append(prefix, ...)` gives
                  WithKey(k) ==
                    IF d.type.kind = "struct"
                       /\ ~DecoderFrom(d.type) /\ ~SetterFrom(d.type)
                       /\ ~TextUnmarshaler(d.type) /\ ~BinaryUnmarshaler(d.type)
                    THEN
                      \* Fields(f.Addr().Interface(), fieldKey...)
                      LET inner == FieldsLoop(d.type, GetAt(v1, <<i>> \o d.sub), fpath,
                                              k.slice, 1, <<>>, k.heap)
                          v2 == SetAt(v1, <<i>> \o d.sub, inner.val)
                      IN IF IsErr(inner.err)
                         THEN [fields |-> fields,
                               err |-> Wrap(inner.err, "Collect failed for embedded struct", <<>>),
                               val |-> v2, heap |-> inner.heap]
                         ELSE FieldsLoop(t, v2, path, prefix, i + 1, fields \o inner.fields,
                                         inner.heap)
                    ELSE
                      FieldsLoop(t, v1, path, prefix, i + 1,
                                 Append(fields, NewField(fieldName, k.slice, fpath, d.type,
                                                         confTags, fieldOpts)),
                                 k.heap)
              IN WithKey(AppendSlice(heap, prefix, CamelSplit(fieldName)))

\* the variadic prefixParam as a slice: nil without arguments, else an
\* array that the arguments fill
PrefixSlice(prefixParam) ==
  IF prefixParam = <<>> THEN NilSlice
  ELSE [arr |-> 1, len |-> Len(prefixParam), seen |-> prefixParam]

PrefixHeap(prefixParam) == IF prefixParam = <<>> THEN <<>> ELSE <<prefixParam>>

\* what the caller holds when Fields has returned: the argument behind its
\* pointer, and the Fields with the segments their EnvKey shows then
FieldsResult(r) ==
  [fields |-> [n \in 1..Len(r.fields) |->
                 [r.fields[n] EXCEPT !.EnvKey = Elems(r.heap, r.fields[n].EnvKey)]],
   err |-> r.err,
   val |-> <<r.val>>]

\* a variant without the check of what the pointer points to
Fields_PtrOnly(spec, prefixParam) ==
  IF spec.type.kind # "ptr"
  THEN [fields |-> <<>>, err |-> InvalidSpecFailure, val |-> spec.val]
  ELSE IF spec.val = Nil \/ spec.type.elem[1].kind # "struct"
  THEN [fields |-> <<>>, err |-> NoErr, val |-> spec.val]
  ELSE FieldsResult(FieldsLoop(spec.type.elem[1], spec.val[1], <<1>>,
                               PrefixSlice(prefixParam), 1, <<>>, PrefixHeap(prefixParam)))

\* a variant that hands the structure back as it was when discovery fails
Fields_Rollback(spec, prefixParam) ==
  IF spec.type.kind # "ptr"
  THEN [fields |-> <<>>, err |-> InvalidSpecFailure, val |-> spec.val]
  ELSE IF spec.val = Nil \/ spec.type.elem[1].kind # "struct"
  THEN [fields |-> <<>>, err |-> InvalidSpecFailure, val |-> spec.val]
  ELSE LET Undo(r) == IF IsErr(r.err) THEN [r EXCEPT !.val = spec.val] ELSE r
       IN Undo(FieldsResult(FieldsLoop(spec.type.elem[1], spec.val[1], <<1>>,
                                       PrefixSlice(prefixParam), 1, <<>>,
                                       PrefixHeap(prefixParam))))

\* spec is the argument as an interface value: its dynamic type and its
\* value; a pointer's value is <<pointee>>, so the caller's structure is
\* spec.val[1] and paths start with 1
Fields(spec, prefixParam) ==
  IF spec.type.kind # "ptr"
  THEN [fields |-> <<>>, err |-> InvalidSpecFailure, val |-> spec.val]
  ELSE IF spec.val = Nil \/ spec.type.elem[1].kind # "struct"
  THEN [fields |-> <<>>, err |-> InvalidSpecFailure, val |-> spec.val]
  ELSE FieldsResult(FieldsLoop(spec.type.elem[1], spec.val[1], <<1>>,
                               PrefixSlice(prefixParam), 1, <<>>, PrefixHeap(prefixParam)))

(***************************************************************************)
(* field.go: ProcessField                                                  *)
(***************************************************************************)
DigitOf == [c \in DigitSet |-> IndexIn(c, DigitChars) - 1]

DigitVal(c) == DigitOf[c]

RECURSIVE DigitsValue(_, _, _)
DigitsValue(s, base, acc) ==
  IF Len(s) = 0 THEN acc
  ELSE DigitsValue(Tail(s), base, acc * base + DigitVal(s[1]))

\* strconv.ParseInt(value, 0, 64) on signed decimal and 0-prefixed octal
\* numerals of a few digits (far below 2^63, so no range error arises); any
\* other character is a syntax error
ParseInt(value) ==
  LET neg == Len(value) > 0 /\ value[1] = "-"
      signed == Len(value) > 0 /\ value[1] \in {"-", "+"}
      digits == IF signed THEN Tail(value) ELSE value
      octal == Len(digits) > 1 /\ digits[1] = "0"
      base == IF octal THEN 8 ELSE 10
      ok == /\ Len(digits) > 0
            /\ \A i \in 1..Len(digits) : IsDigit(digits[i]) /\ DigitVal(digits[i]) < base
      n == DigitsValue(digits, base, 0)
  IN IF ~ok THEN [val |-> 0, err |-> Failure("strconv.ParseInt: invalid syntax", <<value>>)]
     ELSE [val |-> IF neg THEN 0 - n ELSE n, err |-> NoErr]

\* strconv.ParseUint(value, 0, 8) on decimal and 0-prefixed octal numerals:
\* no sign is allowed, and a number above 255 is out of range
ParseUint(value) ==
  LET octal == Len(value) > 1 /\ value[1] = "0"
      base == IF octal THEN 8 ELSE 10
      ok == /\ Len(value) > 0
            /\ \A i \in 1..Len(value) : IsDigit(value[i]) /\ DigitVal(value[i]) < base
  IN IF ~ok THEN [val |-> 0, err |-> Failure("strconv.ParseUint: invalid syntax", <<value>>)]
     ELSE IF DigitsValue(value, base, 0) > 255
     THEN [val |-> 0, err |-> Failure("strconv.ParseUint: value out of range", <<value>>)]
     ELSE [val |-> DigitsValue(value, base, 0), err |-> NoErr]

TrueTokens == {<<"1">>, <<"t">>, <<"T">>, <<"T", "R", "U", "E">>, <<"t", "r", "u", "e">>, <<"T", "r", "u", "e">>}

FalseTokens == {<<"0">>, <<"f">>, <<"F">>, <<"F", "A", "L", "S", "E">>, <<"f", "a", "l", "s", "e">>, <<"F", "a", "l", "s", "e">>}

\* strconv.ParseBool
ParseBool(value) ==
  IF value \in TrueTokens THEN [val |-> TRUE, err |-> NoErr]
  ELSE IF value \in FalseTokens THEN [val |-> FALSE, err |-> NoErr]
  ELSE [val |-> FALSE, err |-> Failure("strconv.ParseBool: invalid syntax", <<value>>)]

\* The custom decoding methods are the caller's code.  The model's methods
\* are written like the fixtures of the tests: they store into the first
\* member of the receiver, here a mark of the method that ran followed by
\* its input, and they reject the input "!".
MethodMark(cap) ==
  CASE cap = Decode -> <<"D", "=">>
    [] cap = Set -> <<"S", "=">>
    [] cap = UnmarshalText -> <<"T", "=">>
    [] cap = UnmarshalBinary -> <<"B", "=">>

CallMethod(cap, cur, value) ==
  IF value = <<"!">>
  THEN [val |-> cur, err |-> Failure("method failed", <<value>>)]
  ELSE [val |-> [cur EXCEPT ![1] = MethodMark(cap) \o value], err |-> NoErr]

RECURSIVE ProcessField(_, _, _)

\* a variant that puts each piece in front of the pieces before it
RECURSIVE SliceLoop_Reversed(_, _, _, _, _)
SliceLoop_Reversed(vals, i, t, sl, cur) ==
  IF i > Len(vals) THEN [val |-> sl, err |-> NoErr]
  ELSE LET Put(r) ==
             IF IsErr(r.err)
             THEN [val |-> cur, err |-> Wrap(r.err, "processField failed at (%d)", <<i - 1>>)]
             ELSE SliceLoop_Reversed(vals, i + 1, t, <<r.val>> \o sl, cur)
       IN Put(ProcessField(vals[i], t.elem[1], Zero(t.elem[1])))

\* a variant that appends the decoded elements to the destination's content
RECURSIVE SliceLoop_Append(_, _, _, _, _)
SliceLoop_Append(vals, i, t, sl, cur) ==
  IF i > Len(vals) THEN [val |-> cur \o sl, err |-> NoErr]
  ELSE LET Put(r) ==
             IF IsErr(r.err)
             THEN [val |-> cur, err |-> Wrap(r.err, "processField failed at (%d)", <<i - 1>>)]
             ELSE SliceLoop_Append(vals, i + 1, t, Append(sl, r.val), cur)
       IN Put(ProcessField(vals[i], t.elem[1], Zero(t.elem[1])))

\* the loop over the pieces of a slice's raw value, from piece i on: sl is
\* the new slice so far, cur the field's content, which stays when a piece
\* fails
RECURSIVE SliceLoop(_, _, _, _, _)
SliceLoop(vals, i, t, sl, cur) ==
  IF i > Len(vals) THEN [val |-> sl, err |-> NoErr]
  ELSE LET Put(r) ==
             IF IsErr(r.err)
             THEN [val |-> cur, err |-> Wrap(r.err, "processField failed at (%d)", <<i - 1>>)]
             ELSE SliceLoop(vals, i + 1, t, Append(sl, r.val), cur)
       IN Put(ProcessField(vals[i], t.elem[1], Zero(t.elem[1])))

\* a variant that passes over a pair that is not a key and a value
RECURSIVE MapLoop_SkipInvalid(_, _, _, _, _)
MapLoop_SkipInvalid(pairs, i, t, mp, cur) ==
  IF i > Len(pairs) THEN [val |-> mp, err |-> NoErr]
  ELSE
    LET pair == pairs[i]
        kvpair == Split(pair, ":")
        PutValue(k, v) ==
          IF IsErr(v.err)
          THEN [val |-> cur,
                err |-> Wrap(v.err, "processField failed for value (pair: %q)", <<pair>>)]
          ELSE MapLoop_SkipInvalid(pairs, i + 1, t,
                       [x \in (DOMAIN mp) \cup {k.val} |-> IF x = k.val THEN v.val ELSE mp[x]],
                       cur)
        PutKey(k) ==
          IF IsErr(k.err)
          THEN [val |-> cur,
                err |-> Wrap(k.err, "processField failed for key (pair: %q) ", <<pair>>)]
          ELSE PutValue(k, ProcessField(kvpair[2], t.elem[1], Zero(t.elem[1])))
    IN IF Len(kvpair) # 2
       THEN MapLoop_SkipInvalid(pairs, i + 1, t, mp, cur)
       ELSE PutKey(ProcessField(kvpair[1], t.key[1], Zero(t.key[1])))

\* the loop over the pairs of a map's raw value, from pair i on: mp is the
\* new map so far
RECURSIVE MapLoop(_, _, _, _, _)
MapLoop(pairs, i, t, mp, cur) ==
  IF i > Len(pairs) THEN [val |-> mp, err |-> NoErr]
  ELSE
    LET pair == pairs[i]
        kvpair == Split(pair, ":")
        PutValue(k, v) ==
          IF IsErr(v.err)
          THEN [val |-> cur,
                err |-> Wrap(v.err, "processField failed for value (pair: %q)", <<pair>>)]
          ELSE MapLoop(pairs, i + 1, t,
                       [x \in (DOMAIN mp) \cup {k.val} |-> IF x = k.val THEN v.val ELSE mp[x]],
                       cur)
        PutKey(k) ==
          IF IsErr(k.err)
          THEN [val |-> cur,
                err |-> Wrap(k.err, "processField failed for key (pair: %q) ", <<pair>>)]
          ELSE PutValue(k, ProcessField(kvpair[2], t.elem[1], Zero(t.elem[1])))
    IN IF Len(kvpair) # 2
       THEN [val |-> cur, err |-> Failure("invalid map item: (pair: %q)", <<pair>>)]
       ELSE PutKey(ProcessField(kvpair[1], t.key[1], Zero(t.key[1])))

\* the built-in handling of `switch typ.Kind()`, applied to the storage cur
\* of type t
ProcessKind(value, t, cur) ==
  CASE t.kind = "string" -> [val |-> value, err |-> NoErr]
    [] t.kind = "int" ->
         LET p == ParseInt(value)
         IN IF IsErr(p.err)
            THEN [val |-> cur, err |-> Wrap(p.err, "strconv.ParseInt failed", <<>>)]
            ELSE [val |-> p.val, err |-> NoErr]
    [] t.kind = "bool" ->
         LET p == ParseBool(value)
         IN IF IsErr(p.err)
            THEN [val |-> cur, err |-> Wrap(p.err, "strconv.ParseBool failed", <<>>)]
            ELSE [val |-> p.val, err |-> NoErr]
    [] t.kind = "uint8" ->
         LET p == ParseUint(value)
         IN IF IsErr(p.err)
            THEN [val |-> cur, err |-> Wrap(p.err, "strconv.ParseUint failed", <<>>)]
            ELSE [val |-> p.val, err |-> NoErr]
    [] t.kind = "slice" ->
         IF t.elem[1].kind = "uint8" THEN [val |-> value, err |-> NoErr]
         ELSE IF Len(TrimSpace(value)) = 0 THEN [val |-> <<>>, err |-> NoErr]
         ELSE SliceLoop(Split(value, ","), 1, t, <<>>, cur)
    [] t.kind = "map" ->
         IF Len(TrimSpace(value)) = 0 THEN [val |-> <<>>, err |-> NoErr]
         ELSE MapLoop(Split(value, ","), 1, t, <<>>, cur)
    [] OTHER -> [val |-> cur, err |-> NoErr]

\* value is the raw string, t the type of the destination, cur its content;
\* yields the destination's content afterwards and the error
ProcessField(value, t, cur) ==
  IF DecoderFrom(t)
  THEN LET r == CallMethod(Decode, cur, value)
       IN [val |-> r.val,
           err |-> IF IsErr(r.err) THEN Wrap(r.err, "decoder.Decode failed (%s)", <<value>>) ELSE NoErr]
  ELSE IF SetterFrom(t)
  THEN LET r == CallMethod(Set, cur, value)
       IN [val |-> r.val,
           err |-> IF IsErr(r.err) THEN Wrap(r.err, "setter.Set failed (%s)", <<value>>) ELSE NoErr]
  ELSE IF TextUnmarshaler(t)
  THEN LET r == CallMethod(UnmarshalText, cur, value)
       IN [val |-> r.val,
           err |-> IF IsErr(r.err) THEN Wrap(r.err, "t.UnmarshalText failed (%s)", <<value>>) ELSE NoErr]
  ELSE IF BinaryUnmarshaler(t)
  THEN LET r == CallMethod(UnmarshalBinary, cur, value)
       IN [val |-> r.val,
           err |-> IF IsErr(r.err) THEN Wrap(r.err, "b.UnmarshalBinary failed (%s)", <<value>>) ELSE NoErr]
  ELSE IF t.kind = "ptr"
  THEN \* a nil pointer gets new storage before the pointee is decoded
       LET typ == t.elem[1]
           field == IF cur = Nil THEN Zero(typ) ELSE cur[1]
           r == ProcessKind(value, typ, field)
       IN [val |-> <<r.val>>, err |-> r.err]
  ELSE ProcessKind(value, t, cur)

(***************************************************************************)
(* Accessors of Field that conf.go calls.                                  *)
(***************************************************************************)
\* a variant in which no field counts as required
IsRequired_Never(field) == FALSE

IsRequired(field) == field.Tag.Required

\* a variant in which no field counts as having a default
IsDefault_Never(field) == FALSE

IsDefault(field) == field.Tag.IsDefault

DefaultValue(field) == field.Tag.Default

\* the resolved lookup key of the field
EnvVariable(field) == field.envVar

S_cli == <<"c", "l", "i">>

\* the value of a `key:value` token of the annotation, "" when there is none
RECURSIVE TagValue(_, _)
TagValue(parts, key) ==
  IF Len(parts) = 0 THEN <<>>
  ELSE LET vals == SplitN2(parts[1], ":")
       IN IF Len(vals) = 2 /\ TrimSpace(vals[1]) = key
          THEN TrimSpace(vals[2])
          ELSE TagValue(Tail(parts), key)

\* the explicit CLI flag name of the annotation
CLIFlag(field) == TagValue(Split(field.ReflectTag, ","), S_cli)

IsCLI(field) == CLIFlag(field) # <<>>

\* the name under which the field is bound in the config-file backend
BindName(field) == IF IsCLI(field) THEN CLIFlag(field) ELSE field.Name

(***************************************************************************)
(* The sources.  env is the process environment, a function from the keys  *)
(* that are set to their values.  flags is the command's flag set: a       *)
(* function from the registered flag names to [Value, Changed].  viper is  *)
(* the config file: a function from the names it holds to their data.      *)
(***************************************************************************)
\* a variant in which a key set to the empty string counts as not set
LookupEnv_NonEmpty(env, key) ==
  IF key \in DOMAIN env /\ env[key] # <<>> THEN [value |-> env[key], ok |-> TRUE]
  ELSE [value |-> <<>>, ok |-> FALSE]

LookupEnv(env, key) ==
  IF key \in DOMAIN env THEN [value |-> env[key], ok |-> TRUE]
  ELSE [value |-> <<>>, ok |-> FALSE]

RECURSIVE Itoa(_)
Itoa(n) ==
  IF n < 0 THEN <<"-">> \o Itoa(0 - n)
  ELSE IF n < 10 THEN <<DigitChars[n + 1]>>
  ELSE Itoa(n \div 10) \o <<DigitChars[(n % 10) + 1]>>

ToLowerChar(c) == IF IsUpper(c) THEN LowerOf[c] ELSE c

ToLower(s) == [i \in 1..Len(s) |-> ToLowerChar(s[i])]

\* a datum of the config file is [t |-> "string", v |-> characters],
\* [t |-> "int", v |-> integer] or [t |-> "bool", v |-> boolean].
\* v.InConfig looks the lower-cased name up in the config file; v.Get yields
\* the value of a flag bound to the name when that flag was changed, before
\* it consults the config file.
fromViper(viper, bound, flags, flagID) ==
  LET name == ToLower(flagID)
  IN IF name \in DOMAIN viper
     THEN LET byFlag == /\ name \in DOMAIN bound
                        /\ bound[name] \in DOMAIN flags
                        /\ flags[bound[name]].Changed
              d == IF byFlag
                   THEN IF flags[bound[name]].bool
                        THEN [t |-> "bool", v |-> ParseBool(flags[bound[name]].Value).val]
                        ELSE [t |-> "string", v |-> flags[bound[name]].Value]
                   ELSE viper[name]
          IN [value |-> CASE d.t = "int" -> Itoa(d.v)
                          [] d.t = "string" -> d.v
                          [] d.t = "bool" -> IF d.v THEN <<"t", "r", "u", "e">> ELSE <<"f", "a", "l", "s", "e">>,
              found |-> TRUE]
     ELSE [value |-> <<>>, found |-> FALSE]

(***************************************************************************)
(* conf.go: ProcessEnv                                                     *)
(***************************************************************************)
\* the loop over the fields, from field i on; val is the argument's value.
\* at is the index of the field at which the loop returned, 0 when it ran
\* to the end.
RECURSIVE ProcessEnvLoop(_, _, _, _)
ProcessEnvLoop(fields, i, val, env) ==
  IF i > Len(fields) THEN [val |-> val, err |-> NoErr, at |-> 0]
  ELSE
    LET field == fields[i]
        key == EnvVariable(field)
        looked == LookupEnv(env, key)
        value == IF ~looked.ok /\ IsDefault(field) THEN DefaultValue(field)
                 ELSE looked.value
    IN IF key = <<>>
       THEN [val |-> val,
             err |-> Failure("env: is required but empty for (%s)", <<field.Name>>),
             at |-> i]
       ELSE IF ~looked.ok /\ ~IsDefault(field)
       THEN IF IsRequired(field)
            THEN [val |-> val,
                  err |-> Failure("required key (%s,%s) missing value", <<field.Name, key>>),
                  at |-> i]
            ELSE ProcessEnvLoop(fields, i + 1, val, env)
       ELSE LET Store(r, val2) ==
                  IF IsErr(r.err)
                  THEN [val |-> val2,
                        err |-> Wrap(r.err, "ProcessField failed (%s)", <<field.Name>>),
                        at |-> i]
                  ELSE ProcessEnvLoop(fields, i + 1, val2, env)
                Process(r) == Store(r, SetAt(val, field.path, r.val))
            IN Process(ProcessField(value, field.type, GetAt(val, field.path)))

ProcessEnv(spec, prefix, env) ==
  LET Returned(d, r) == [val |-> r.val, err |-> r.err, at |-> r.at, fields |-> d.fields]
      Resolve(d) ==
        IF IsErr(d.err)
        THEN [val |-> d.val, err |-> Wrap(d.err, "Fields failed", <<>>), at |-> 0,
              fields |-> d.fields]
        ELSE Returned(d, ProcessEnvLoop(d.fields, 1, d.val, env))
  IN Resolve(Fields(spec, prefix))

(***************************************************************************)
(* conf.go: ProcessCLI                                                     *)
(***************************************************************************)
\* a variant that asks the environment before the command line
CLIValue_EnvFirst(field, env, flags, bound, viper) ==
  LET key == EnvVariable(field)
      flag == CLIFlag(field)
      flagID == BindName(field)
      looked == LookupEnv(env, key)
  IN IF key # <<>> /\ key # <<"-">> /\ looked.ok
     THEN looked.value
     ELSE IF /\ flag # <<>>
             /\ flag \in DOMAIN flags
             /\ flags[flag].Value # <<>>
             /\ flags[flag].Changed
     THEN flags[flag].Value
     ELSE IF key # <<>>
     THEN fromViper(viper, bound, flags, flagID).value
     ELSE <<>>

\* the value the sources give to a field, before the default is considered
CLIValue(field, env, flags, bound, viper) ==
  LET key == EnvVariable(field)
      flag == CLIFlag(field)
      flagID == BindName(field)
  IN IF /\ flag # <<>>
        /\ flag \in DOMAIN flags
        /\ flags[flag].Value # <<>>
        /\ flags[flag].Changed
     THEN flags[flag].Value
     ELSE IF key # <<>>
     THEN IF key # <<"-">>
          THEN LET looked == LookupEnv(env, key)
               IN IF ~looked.ok THEN fromViper(viper, bound, flags, flagID).value ELSE looked.value
          ELSE fromViper(viper, bound, flags, flagID).value
     ELSE <<>>

\* a variant that returns at the first field that fails
RECURSIVE ProcessCLILoop_FailFast(_, _, _, _, _, _, _, _)
ProcessCLILoop_FailFast(fields, i, val, env, flags, bound, viper, failed) ==
  IF i > Len(fields) THEN [val |-> val, failed |-> failed]
  ELSE
    LET field == fields[i]
        found == CLIValue(field, env, flags, bound, viper)
        value == IF found = <<>> /\ IsDefault(field) THEN DefaultValue(field) ELSE found
    IN IF found = <<>> /\ ~IsDefault(field) /\ IsRequired(field)
       THEN [val |-> val,
             failed |-> Append(failed,
                     Failure("required key (field:%s,env:%s,cli:%s) missing value",
                             <<field.Name, EnvVariable(field), CLIFlag(field)>>))]
       ELSE LET Store(r, val2) ==
                  IF IsErr(r.err)
                  THEN [val |-> val2,
                        failed |-> Append(failed, Wrap(r.err, "ProcessField failed (%s)", <<field.Name>>))]
                  ELSE ProcessCLILoop_FailFast(fields, i + 1, val2, env, flags, bound, viper, failed)
                Process(r) == Store(r, SetAt(val, field.path, r.val))
            IN Process(ProcessField(value, field.type, GetAt(val, field.path)))

\* the loop over the fields; failed is the multi-error so far, the sequence
\* of the errors appended to it
RECURSIVE ProcessCLILoop(_, _, _, _, _, _, _, _)
ProcessCLILoop(fields, i, val, env, flags, bound, viper, failed) ==
  IF i > Len(fields) THEN [val |-> val, failed |-> failed]
  ELSE
    LET field == fields[i]
        found == CLIValue(field, env, flags, bound, viper)
        value == IF found = <<>> /\ IsDefault(field) THEN DefaultValue(field) ELSE found
    IN IF found = <<>> /\ ~IsDefault(field) /\ IsRequired(field)
       THEN ProcessCLILoop(fields, i + 1, val, env, flags, bound, viper,
              Append(failed,
                     Failure("required key (field:%s,env:%s,cli:%s) missing value",
                             <<field.Name, EnvVariable(field), CLIFlag(field)>>)))
       ELSE LET Store(r, val2) ==
                  IF IsErr(r.err)
                  THEN ProcessCLILoop(fields, i + 1, val2, env, flags, bound, viper,
                         Append(failed, Wrap(r.err, "ProcessField failed (%s)", <<field.Name>>)))
                  ELSE ProcessCLILoop(fields, i + 1, val2, env, flags, bound, viper, failed)
                Process(r) == Store(r, SetAt(val, field.path, r.val))
            IN Process(ProcessField(value, field.type, GetAt(val, field.path)))

\* failed.ErrorOrNil(): nil when nothing was appended
ErrorOrNil(failed) ==
  IF Len(failed) = 0 THEN NoErr ELSE Failure("multiple errors", <<>>)

ProcessCLI(spec, prefix, env, flags, bound, viper) ==
  LET Returned(d, r) == [val |-> r.val, err |-> ErrorOrNil(r.failed), failed |-> r.failed,
                         fields |-> d.fields]
      Resolve(d) ==
        IF IsErr(d.err)
        THEN [val |-> d.val, err |-> Wrap(d.err, "Fields failed", <<>>), failed |-> <<>>,
              fields |-> d.fields]
        ELSE Returned(d, ProcessCLILoop(d.fields, 1, d.val, env, flags, bound, viper, <<>>))
  IN Resolve(Fields(spec, prefix))

(***************************************************************************)
(* conf.go: EnvNames, EnvToMap, BindCLI                                    *)
(***************************************************************************)
AWSLambdaFunctionNameVar == <<"A", "W", "S", "_", "L", "A", "M", "B", "D", "A", "_", "F", "U", "N", "C", "T", "I", "O", "N", "_", "N", "A", "M", "E">>

AWSProfile == <<"A", "W", "S", "_", "P", "R", "O", "F", "I", "L", "E">>

AWSRegion == <<"A", "W", "S", "_", "R", "E", "G", "I", "O", "N">>

AppName == <<"A", "P", "P", "_", "N", "A", "M", "E">>

excludedVars == {AppName, AWSProfile, AWSRegion, AWSLambdaFunctionNameVar}

\* a variant that leaves out the `-` key only
RECURSIVE EnvNamesLoop_KeepReserved(_, _, _)
EnvNamesLoop_KeepReserved(fields, i, names) ==
  IF i > Len(fields) THEN names
  ELSE LET key == EnvVariable(fields[i])
       IN IF key = <<"-">>
          THEN EnvNamesLoop_KeepReserved(fields, i + 1, names)
          ELSE EnvNamesLoop_KeepReserved(fields, i + 1, Append(names, key))

RECURSIVE EnvNamesLoop(_, _, _)
EnvNamesLoop(fields, i, names) ==
  IF i > Len(fields) THEN names
  ELSE LET key == EnvVariable(fields[i])
       IN IF key = <<"-">> \/ key \in excludedVars
          THEN EnvNamesLoop(fields, i + 1, names)
          ELSE EnvNamesLoop(fields, i + 1, Append(names, key))

EnvNames(spec, prefix) ==
  LET Collect(d) ==
        IF IsErr(d.err)
        THEN [val |-> d.val, err |-> Wrap(d.err, "Fields failed", <<>>), names |-> <<>>,
              fields |-> d.fields]
        ELSE [val |-> d.val, err |-> NoErr, names |-> EnvNamesLoop(d.fields, 1, <<>>),
              fields |-> d.fields]
  IN Collect(Fields(spec, prefix))

\* result is the map so far, a function from keys to values
RECURSIVE EnvToMapLoop(_, _, _, _)
EnvToMapLoop(fields, i, result, env) ==
  IF i > Len(fields) THEN [result |-> result, err |-> NoErr, at |-> 0]
  ELSE
    LET field == fields[i]
        key == EnvVariable(field)
        looked == LookupEnv(env, key)
        value == IF ~looked.ok /\ IsDefault(field) THEN DefaultValue(field)
                 ELSE looked.value
    IN IF key = <<"-">> \/ key \in excludedVars
       THEN EnvToMapLoop(fields, i + 1, result, env)
       ELSE IF key = <<>>
       THEN [result |-> result,
             err |-> Failure("env: is required but empty for (%s)", <<field.Name>>),
             at |-> i]
       ELSE IF ~looked.ok /\ ~IsDefault(field) /\ IsRequired(field)
       THEN [result |-> result,
             err |-> Failure("required key (%s,%s) missing value", <<field.Name, key>>),
             at |-> i]
       ELSE EnvToMapLoop(fields, i + 1,
                         [k \in (DOMAIN result) \cup {key} |->
                            IF k = key THEN value ELSE result[k]],
                         env)

EmptyMap == [k \in {} |-> <<>>]

EnvToMap(spec, prefix, env) ==
  LET Returned(d, r) == [val |-> d.val, err |-> r.err, result |-> r.result, at |-> r.at,
                         fields |-> d.fields]
      Collect(d) ==
        IF IsErr(d.err)
        THEN [val |-> d.val, err |-> Wrap(d.err, "Fields failed", <<>>), result |-> EmptyMap,
              at |-> 0, fields |-> d.fields]
        ELSE Returned(d, EnvToMapLoop(d.fields, 1, EmptyMap, env))
  IN Collect(Fields(spec, prefix))

\* the loop over the fields; flags and bound are the command's flag set and
\* the config backend's flag bindings so far
RECURSIVE BindCLILoop(_, _, _, _)
BindCLILoop(fields, i, flags, bound) ==
  IF i > Len(fields) THEN [flags |-> flags, bound |-> bound, err |-> NoErr]
  ELSE
    LET field == fields[i]
        flag == CLIFlag(field)
        isBool == field.type.kind = "bool"
        defaultValue == IF isBool /\ DefaultValue(field) = <<>> THEN <<"f", "a", "l", "s", "e">>
                        ELSE DefaultValue(field)
        dv == ParseBool(defaultValue)
        \* the flag's Value.String(): a bool flag prints the parsed default
        shown == IF isBool THEN (IF dv.val THEN <<"t", "r", "u", "e">> ELSE <<"f", "a", "l", "s", "e">>) ELSE defaultValue
    IN IF ~IsCLI(field) THEN BindCLILoop(fields, i + 1, flags, bound)
       ELSE IF isBool /\ IsErr(dv.err)
       THEN [flags |-> flags, bound |-> bound,
             err |-> Wrap(dv.err, "strconv.ParseBool failed", <<>>)]
       ELSE BindCLILoop(fields, i + 1,
              [f \in (DOMAIN flags) \cup {flag} |->
                 IF f = flag THEN [Value |-> shown, Changed |-> FALSE, bool |-> isBool]
                 ELSE flags[f]],
              [b \in (DOMAIN bound) \cup {ToLower(BindName(field))} |->
                 IF b = ToLower(BindName(field)) THEN flag ELSE bound[b]])

BindCLI(spec, prefix, flags, bound) ==
  LET Returned(d, r) == [val |-> d.val, err |-> r.err, flags |-> r.flags, bound |-> r.bound,
                         fields |-> d.fields]
      Bind(d) ==
        IF IsErr(d.err)
        THEN [val |-> d.val, err |-> Wrap(d.err, "Fields failed", <<>>), flags |-> flags,
              bound |-> bound, fields |-> d.fields]
        ELSE Returned(d, BindCLILoop(d.fields, 1, flags, bound))
  IN Bind(Fields(spec, prefix))

(***************************************************************************)
(* The inputs.  The caller's structure is a struct whose members are some  *)
(* MaxMembers of the members below, in this order.  Each is listed with    *)
(* the environment keys that concern it.                                   *)
(***************************************************************************)
MaxMembers == 2

MaxEnvEntries == 1

V_7 == <<"7">>

V_foobar == <<"f", "o", "o", "b", "a", "r">>

C_nbr == <<"n", "b", "r">>

C_dash == <<"d", "a", "s", "h">>

V_old == <<"o", "l", "d">>

V_cfg == <<"c", "f", "g">>

F_my_field == <<"m", "y", "-", "f", "i", "e", "l", "d">>

\* type HonorDecodeInStruct struct{ Value string } with a Decode method, and
\* its like for the other three methods
CustomT(caps) == StructT(caps, <<Member(<<"V", "a", "l", "u", "e">>, <<>>, TRUE, StringT)>>)

MemberPool == <<
  \* 1: Host string `conf:"env:MY_HOST,no-prefix,default:abc"`
  [member |-> Member(<<"H", "o", "s", "t">>, <<"e", "n", "v", ":", "M", "Y", "_", "H", "O", "S", "T", ",", "n", "o", "-", "p", "r", "e", "f", "i", "x", ",", "d", "e", "f", "a", "u", "l", "t", ":", "a", "b", "c">>, TRUE, StringT),
   keys |-> {<<"M", "Y", "_", "H", "O", "S", "T">>}, flags |-> {}, cfg |-> {}],
  \* 2: Foo string `conf:"env:MY_FOO,required"`; keys FOO_MY_FOO, APP_MY_FOO
  [member |-> Member(<<"F", "o", "o">>, <<"e", "n", "v", ":", "M", "Y", "_", "F", "O", "O", ",", "r", "e", "q", "u", "i", "r", "e", "d">>, TRUE, StringT),
   keys |-> {<<"F", "O", "O", "_", "M", "Y", "_", "F", "O", "O">>, <<"A", "P", "P", "_", "M", "Y", "_", "F", "O", "O">>}, flags |-> {}, cfg |-> {}],
  \* 3: Nbr int `conf:"env:MY_NBR,no-prefix"`
  [member |-> Member(<<"N", "b", "r">>, <<"e", "n", "v", ":", "M", "Y", "_", "N", "B", "R", ",", "n", "o", "-", "p", "r", "e", "f", "i", "x">>, TRUE, IntT),
   keys |-> {<<"M", "Y", "_", "N", "B", "R">>}, flags |-> {}, cfg |-> {C_nbr}],
  \* 4: Bar string `conf:"env:MY_BAR,no-prefix,default:abc,required"`
  [member |-> Member(<<"B", "a", "r">>, <<"e", "n", "v", ":", "M", "Y", "_", "B", "A", "R", ",", "n", "o", "-", "p", "r", "e", "f", "i", "x", ",", "d", "e", "f", "a", "u", "l", "t", ":", "a", "b", "c", ",", "r", "e", "q", "u", "i", "r", "e", "d">>, TRUE, StringT),
   keys |-> {<<"M", "Y", "_", "B", "A", "R">>}, flags |-> {}, cfg |-> {}],
  \* 5: Opt *string `conf:"env:MY_OPT,no-prefix"`
  [member |-> Member(<<"O", "p", "t">>, <<"e", "n", "v", ":", "M", "Y", "_", "O", "P", "T", ",", "n", "o", "-", "p", "r", "e", "f", "i", "x">>, TRUE, PtrT(StringT)),
   keys |-> {<<"M", "Y", "_", "O", "P", "T">>}, flags |-> {}, cfg |-> {}],
  \* 6: FieldX string `conf:"env:-,required"`; keys FIELD_-, APP_-, FIELD_X, APP_FIELD_X
  [member |-> Member(<<"F", "i", "e", "l", "d", "X">>, <<"e", "n", "v", ":", "-", ",", "r", "e", "q", "u", "i", "r", "e", "d">>, TRUE, StringT),
   keys |-> {<<"F", "I", "E", "L", "D", "_", "-">>, <<"A", "P", "P", "_", "-">>, <<"F", "I", "E", "L", "D", "_", "X">>, <<"A", "P", "P", "_", "F", "I", "E", "L", "D", "_", "X">>}, flags |-> {}, cfg |-> {}],
  \* 7: Dash string `conf:"env:-,no-prefix,required"`; keys -, DASH
  [member |-> Member(<<"D", "a", "s", "h">>, <<"e", "n", "v", ":", "-", ",", "n", "o", "-", "p", "r", "e", "f", "i", "x", ",", "r", "e", "q", "u", "i", "r", "e", "d">>, TRUE, StringT),
   keys |-> {<<"-">>, <<"D", "A", "S", "H">>}, flags |-> {}, cfg |-> {C_dash}],
  \* 8: Bad bool `conf:"env:,default:xys"`
  [member |-> Member(<<"B", "a", "d">>, <<"e", "n", "v", ":", ",", "d", "e", "f", "a", "u", "l", "t", ":", "x", "y", "s">>, TRUE, BoolT),
   keys |-> {}, flags |-> {}, cfg |-> {}],
  \* 9: Ign string `conf:"-"`
  [member |-> Member(<<"I", "g", "n">>, <<"-">>, TRUE, StringT),
   keys |-> {}, flags |-> {}, cfg |-> {}],
  \* 10: hidden string
  [member |-> Member(<<"h", "i", "d", "d", "e", "n">>, <<>>, FALSE, StringT),
   keys |-> {}, flags |-> {}, cfg |-> {}],
  \* 11: Web *struct{ Addr string `conf:"env:WEB_ADDR,no-prefix"`; Ign int `conf:"-"` }
  [member |-> Member(<<"W", "e", "b">>, <<>>, TRUE,
                     PtrT(StructT({}, <<Member(<<"A", "d", "d", "r">>, <<"e", "n", "v", ":", "W", "E", "B", "_", "A", "D", "D", "R", ",", "n", "o", "-", "p", "r", "e", "f", "i", "x">>, TRUE, StringT),
                                        Member(<<"I", "g", "n">>, <<"-">>, TRUE, IntT)>>))),
   keys |-> {<<"W", "E", "B", "_", "A", "D", "D", "R">>}, flags |-> {}, cfg |-> {}],
  \* 12: Nested struct{ NestValue string `conf:"required"`; Level *int `conf:"env:MY_NBR,no-prefix,default:7"` }
  [member |-> Member(<<"N", "e", "s", "t", "e", "d">>, <<>>, TRUE,
                     StructT({}, <<Member(<<"N", "e", "s", "t", "V", "a", "l", "u", "e">>, <<"r", "e", "q", "u", "i", "r", "e", "d">>, TRUE, StringT),
                                   Member(<<"L", "e", "v", "e", "l">>, <<"e", "n", "v", ":", "M", "Y", "_", "N", "B", "R", ",", "n", "o", "-", "p", "r", "e", "f", "i", "x", ",", "d", "e", "f", "a", "u", "l", "t", ":", "7">>, TRUE, PtrT(IntT))>>)),
   keys |-> {<<"N", "E", "S", "T", "E", "D", "_", "N", "E", "S", "T", "_", "V", "A", "L", "U", "E">>, <<"A", "P", "P", "_", "N", "E", "S", "T", "E", "D", "_", "N", "E", "S", "T", "_", "V", "A", "L", "U", "E">>, <<"M", "Y", "_", "N", "B", "R">>}, flags |-> {}, cfg |-> {}],
  \* 13: Broken struct{ Web *struct{ Addr string `conf:"env:WEB_ADDR,no-prefix"` }; IsFlag bool `conf:"env:,default:xys"` }
  [member |-> Member(<<"B", "r", "o", "k", "e", "n">>, <<>>, TRUE,
                     StructT({}, <<Member(<<"W", "e", "b">>, <<>>, TRUE,
                                          PtrT(StructT({}, <<Member(<<"A", "d", "d", "r">>, <<"e", "n", "v", ":", "W", "E", "B", "_", "A", "D", "D", "R", ",", "n", "o", "-", "p", "r", "e", "f", "i", "x">>, TRUE, StringT)>>))),
                                   Member(<<"I", "s", "F", "l", "a", "g">>, <<"e", "n", "v", ":", ",", "d", "e", "f", "a", "u", "l", "t", ":", "x", "y", "s">>, TRUE, BoolT)>>)),
   keys |-> {<<"W", "E", "B", "_", "A", "D", "D", "R">>}, flags |-> {}, cfg |-> {}],
  \* 14: Honor HonorDecodeInStruct `conf:"env:HONOR,no-prefix"`, with Decode
  [member |-> Member(<<"H", "o", "n", "o", "r">>, <<"e", "n", "v", ":", "H", "O", "N", "O", "R", ",", "n", "o", "-", "p", "r", "e", "f", "i", "x">>, TRUE, CustomT({Decode})),
   keys |-> {<<"H", "O", "N", "O", "R">>}, flags |-> {}, cfg |-> {}],
  \* 15: Stamp, a struct with UnmarshalText and UnmarshalBinary, `conf:"env:HONOR,no-prefix"`
  [member |-> Member(<<"S", "t", "a", "m", "p">>, <<"e", "n", "v", ":", "H", "O", "N", "O", "R", ",", "n", "o", "-", "p", "r", "e", "f", "i", "x">>, TRUE, CustomT({UnmarshalText, UnmarshalBinary})),
   keys |-> {<<"H", "O", "N", "O", "R">>}, flags |-> {}, cfg |-> {}],
  \* 16: URLPtr *CustomURL `conf:"env:HONOR,no-prefix"`, with UnmarshalBinary
  [member |-> Member(<<"U", "R", "L", "P", "t", "r">>, <<"e", "n", "v", ":", "H", "O", "N", "O", "R", ",", "n", "o", "-", "p", "r", "e", "f", "i", "x">>, TRUE, PtrT(CustomT({UnmarshalBinary}))),
   keys |-> {<<"H", "O", "N", "O", "R">>}, flags |-> {}, cfg |-> {}],
  \* 17: Mode, a struct with Set, `conf:"env:HONOR,no-prefix"`
  [member |-> Member(<<"M", "o", "d", "e">>, <<"e", "n", "v", ":", "H", "O", "N", "O", "R", ",", "n", "o", "-", "p", "r", "e", "f", "i", "x">>, TRUE, CustomT({Set})),
   keys |-> {<<"H", "O", "N", "O", "R">>}, flags |-> {}, cfg |-> {}],
  \* 18: AllIgn struct{ Ign string `conf:"-"`; hidden string }
  [member |-> Member(<<"A", "l", "l", "I", "g", "n">>, <<>>, TRUE,
                     StructT({}, <<Member(<<"I", "g", "n">>, <<"-">>, TRUE, StringT),
                                   Member(<<"h", "i", "d", "d", "e", "n">>, <<>>, FALSE, StringT)>>)),
   keys |-> {}, flags |-> {}, cfg |-> {}],
  \* 19: Field string `conf:"env:MY_FIELD,no-prefix,cli:my-field"`
  [member |-> Member(<<"F", "i", "e", "l", "d">>, <<"e", "n", "v", ":", "M", "Y", "_", "F", "I", "E", "L", "D", ",", "n", "o", "-", "p", "r", "e", "f", "i", "x", ",", "c", "l", "i", ":", "m", "y", "-", "f", "i", "e", "l", "d">>, TRUE, StringT),
   keys |-> {<<"M", "Y", "_", "F", "I", "E", "L", "D">>}, flags |-> {F_my_field}, cfg |-> {F_my_field}],
  \* 20: Last string `conf:"env:MY_LAST,no-prefix,default:end"`
  [member |-> Member(<<"L", "a", "s", "t">>, <<"e", "n", "v", ":", "M", "Y", "_", "L", "A", "S", "T", ",", "n", "o", "-", "p", "r", "e", "f", "i", "x", ",", "d", "e", "f", "a", "u", "l", "t", ":", "e", "n", "d">>, TRUE, StringT),
   keys |-> {<<"M", "Y", "_", "L", "A", "S", "T">>}, flags |-> {}, cfg |-> {}],
  \* 21: MaxConns int
  [member |-> Member(<<"M", "a", "x", "C", "o", "n", "n", "s">>, <<>>, TRUE, IntT),
   keys |-> {<<"M", "A", "X", "_", "C", "O", "N", "N", "S">>, <<"A", "P", "P", "_", "M", "A", "X", "_", "C", "O", "N", "N", "S">>}, flags |-> {}, cfg |-> {}],
  \* 22: DBPool struct{ HostName string; Limits *struct{ MaxSize int } }
  [member |-> Member(<<"D", "B", "P", "o", "o", "l">>, <<>>, TRUE,
                     StructT({}, <<Member(<<"H", "o", "s", "t", "N", "a", "m", "e">>, <<>>, TRUE, StringT),
                                   Member(<<"L", "i", "m", "i", "t", "s">>, <<>>, TRUE,
                                          PtrT(StructT({}, <<Member(<<"M", "a", "x", "S", "i", "z", "e">>, <<>>, TRUE, IntT)>>)))>>)),
   keys |-> {<<"D", "B", "_", "P", "O", "O", "L", "_", "H", "O", "S", "T", "_", "N", "A", "M", "E">>, <<"A", "P", "P", "_", "D", "B", "_", "P", "O", "O", "L", "_", "H", "O", "S", "T", "_", "N", "A", "M", "E">>, <<"D", "B", "_", "P", "O", "O", "L", "_", "L", "I", "M", "I", "T", "S", "_", "M", "A", "X", "_", "S", "I", "Z", "E">>}, flags |-> {}, cfg |-> {}],
  \* 23: Solo string `conf:"no-prefix"`
  [member |-> Member(<<"S", "o", "l", "o">>, <<"n", "o", "-", "p", "r", "e", "f", "i", "x">>, TRUE, StringT),
   keys |-> {<<"S", "O", "L", "O">>, <<"A", "P", "P", "_", "S", "O", "L", "O">>}, flags |-> {}, cfg |-> {}],
  \* 24: Outer struct{ Inner string `conf:"no-prefix"`; Port string `conf:"env:PORT"` }
  [member |-> Member(<<"O", "u", "t", "e", "r">>, <<>>, TRUE,
                     StructT({}, <<Member(<<"I", "n", "n", "e", "r">>, <<"n", "o", "-", "p", "r", "e", "f", "i", "x">>, TRUE, StringT),
                                   Member(<<"P", "o", "r", "t">>, <<"e", "n", "v", ":", "P", "O", "R", "T">>, TRUE, StringT)>>)),
   keys |-> {<<"I", "N", "N", "E", "R">>, <<"O", "U", "T", "E", "R", "_", "I", "N", "N", "E", "R">>, <<"O", "U", "T", "E", "R", "_", "P", "O", "R", "T">>, <<"A", "P", "P", "_", "P", "O", "R", "T">>}, flags |-> {}, cfg |-> {}],
  \* 25: Count *int `conf:"env:MY_COUNT,no-prefix"`
  [member |-> Member(<<"C", "o", "u", "n", "t">>, <<"e", "n", "v", ":", "M", "Y", "_", "C", "O", "U", "N", "T", ",", "n", "o", "-", "p", "r", "e", "f", "i", "x">>, TRUE, PtrT(IntT)),
   keys |-> {<<"M", "Y", "_", "C", "O", "U", "N", "T">>}, flags |-> {}, cfg |-> {}],
  \* 26: Nums []int `conf:"env:NUMS,no-prefix"`
  [member |-> Member(<<"N", "u", "m", "s">>, <<"e", "n", "v", ":", "N", "U", "M", "S", ",", "n", "o", "-", "p", "r", "e", "f", "i", "x">>, TRUE, SliceT(IntT)),
   keys |-> {<<"N", "U", "M", "S">>}, flags |-> {}, cfg |-> {}],
  \* 27: Codes map[string]int `conf:"env:CODES,no-prefix,default:map(a|1)"`
  [member |-> Member(<<"C", "o", "d", "e", "s">>, <<"e", "n", "v", ":", "C", "O", "D", "E", "S", ",", "n", "o", "-", "p", "r", "e", "f", "i", "x", ",", "d", "e", "f", "a", "u", "l", "t", ":", "m", "a", "p", "(", "a", "|", "1", ")">>, TRUE, MapT(StringT, IntT)),
   keys |-> {<<"C", "O", "D", "E", "S">>}, flags |-> {}, cfg |-> {}],
  \* 28: Pick string `conf:"env:MY_PICK,no-prefix,cli:pick,default:abc"`
  [member |-> Member(<<"P", "i", "c", "k">>, <<"e", "n", "v", ":", "M", "Y", "_", "P", "I", "C", "K", ",", "n", "o", "-", "p", "r", "e", "f", "i", "x", ",", "c", "l", "i", ":", "p", "i", "c", "k", ",", "d", "e", "f", "a", "u", "l", "t", ":", "a", "b", "c">>, TRUE, StringT),
   keys |-> {<<"M", "Y", "_", "P", "I", "C", "K">>}, flags |-> {<<"p", "i", "c", "k">>}, cfg |-> {<<"p", "i", "c", "k">>}],
  \* 29: Name string `conf:"default:svc"`; keys NAME, APP_NAME
  [member |-> Member(<<"N", "a", "m", "e">>, <<"d", "e", "f", "a", "u", "l", "t", ":", "s", "v", "c">>, TRUE, StringT),
   keys |-> {<<"N", "A", "M", "E">>, <<"A", "P", "P", "_", "N", "A", "M", "E">>}, flags |-> {}, cfg |-> {}],
  \* 30: Cache struct{ Redis struct{ Host string; Port string } }
  [member |-> Member(<<"C", "a", "c", "h", "e">>, <<>>, TRUE,
                     StructT({}, <<Member(<<"R", "e", "d", "i", "s">>, <<>>, TRUE,
                                          StructT({}, <<Member(<<"H", "o", "s", "t">>, <<>>, TRUE, StringT),
                                                        Member(<<"P", "o", "r", "t">>, <<>>, TRUE, StringT)>>))>>)),
   keys |-> {<<"C", "A", "C", "H", "E", "_", "R", "E", "D", "I", "S", "_", "H", "O", "S", "T">>, <<"A", "P", "P", "_", "C", "A", "C", "H", "E", "_", "R", "E", "D", "I", "S", "_", "H", "O", "S", "T">>, <<"C", "A", "C", "H", "E", "_", "R", "E", "D", "I", "S", "_", "P", "O", "R", "T">>, <<"A", "P", "P", "_", "C", "A", "C", "H", "E", "_", "R", "E", "D", "I", "S", "_", "P", "O", "R", "T">>}, flags |-> {}, cfg |-> {}]
>>

\* the caller's structures, as sequences of indices into MemberPool: those
\* for the claims about resolution (leaves with their sources) ...
ResolveFixtures ==
  {<<1, 2, 3>>, <<2, 3, 20>>, <<5, 2, 1>>, <<4, 5, 3>>, <<6, 1>>, <<7, 1>>,
   <<19, 3, 1>>, <<25, 5>>, <<26, 27>>, <<27, 25>>, <<28, 3>>}

\* ... and those for the claims about discovery (nesting, pointers,
\* exclusion, custom decoding)
DiscoverFixtures ==
  {<<1, 9, 10>>, <<11, 5, 1>>, <<9, 12, 1>>, <<13, 1>>, <<14, 17>>,
   <<15, 16>>, <<17, 12>>, <<9, 10, 18>>, <<11, 8>>, <<18, 1>>, <<1, 8, 20>>,
   <<21, 22>>, <<22, 10>>, <<23, 24>>, <<24, 2>>, <<7, 29, 2>>, <<29, 30>>,
   <<30, 1>>}

\* a structure has the leading members of one of these, at most MaxMembers
Leading(fixtures) ==
  UNION {{SubSeq(f, 1, n) : n \in 0..(IF Len(f) < MaxMembers THEN Len(f) ELSE MaxMembers)} :
           f \in fixtures}

StructOf(pick) == StructT({}, [i \in 1..Len(pick) |-> MemberPool[pick[i]].member])

KeysOf(pick) == UNION {MemberPool[pick[i]].keys : i \in 1..Len(pick)}

EnvValues == {<<>>, V_7}

\* the environments with at most MaxEnvEntries of the keys set
EnvsOver(keys) ==
  UNION {[S -> EnvValues] : S \in {T \in SUBSET keys : Cardinality(T) <= MaxEnvEntries}}

Prefixes == {<<>>, <<<<"A", "P", "P">>>>}

FlagsOf(pick) == UNION {MemberPool[pick[i]].flags : i \in 1..Len(pick)}

CfgOf(pick) == UNION {MemberPool[pick[i]].cfg : i \in 1..Len(pick)}

\* the command lines: at most one of the flags given, with a value
ArgsOver(names) == UNION {[S -> {V_foobar}] : S \in {T \in SUBSET names : Cardinality(T) <= 1}}

\* the config files: at most one of the names present
ConfigsOver(names) ==
  UNION {[S -> {[t |-> "string", v |-> V_cfg], [t |-> "int", v |-> 5]}] :
           S \in {T \in SUBSET names : Cardinality(T) <= 1}}

\* a structure as the caller hands it over: every leaf set to a value of
\* its own beforehand, every pointer still nil
RECURSIVE Filled(_)
Filled(t) ==
  CASE t.kind = "string" -> V_old
    [] t.kind = "int" -> 42
    [] t.kind = "bool" -> TRUE
    [] t.kind = "ptr" -> Nil
    [] t.kind = "struct" -> [i \in 1..Len(t.members) |-> Filled(t.members[i].type)]
    [] t.kind = "uint8" -> 42
    [] t.kind = "slice" -> <<Filled(t.elem[1])>>
    [] t.kind = "map" -> [k \in {Filled(t.key[1])} |-> Filled(t.elem[1])]

(***************************************************************************)
(* The state: the argument the caller passes (spec) with the caller's      *)
(* structure behind it, the root prefix, the three sources, the command    *)
(* line, and what the last call returned.                                  *)
(***************************************************************************)
VARIABLES spec, prefix, env, flags, bound, viper, args, last

vars == <<spec, prefix, env, flags, bound, viper, args, last>>

NoFlags == [f \in {} |-> [Value |-> <<>>, Changed |-> FALSE, bool |-> FALSE]]

NoBound == [b \in {} |-> <<>>]

NoNames == <<>>

\* what a call returned (err, fields, names, result), with the structure as
\* it was when the call was made (pre), the index of the field at which
\* ProcessEnv or EnvToMap returned (at, 0 if it went through all of them)
\* and the fields that failed in ProcessCLI (failed)
Result(op, err, at, fields, failed, names, result) ==
  [op |-> op, pre |-> spec.val, err |-> err, at |-> at, fields |-> fields,
   failed |-> failed, names |-> names, result |-> result]

Idle == [op |-> "none", pre |-> Nil, err |-> NoErr, at |-> 0, fields |-> <<>>,
         failed |-> <<>>, names |-> NoNames, result |-> EmptyMap]

\* a pointer to a structure of leaves, with every source
InitResolve ==
  \E pick \in Leading(ResolveFixtures) :
    /\ spec = [type |-> PtrT(StructOf(pick)), val |-> <<Filled(StructOf(pick))>>]
    /\ prefix \in Prefixes
    /\ env \in EnvsOver(KeysOf(pick))
    /\ args \in ArgsOver(FlagsOf(pick))
    /\ viper \in ConfigsOver(CfgOf(pick))

\* a pointer to a structure with nested, excluded and custom members
InitDiscover ==
  \E pick \in Leading(DiscoverFixtures) :
    /\ spec = [type |-> PtrT(StructOf(pick)), val |-> <<Filled(StructOf(pick))>>]
    /\ prefix \in Prefixes
    /\ env \in EnvsOver(KeysOf(pick))
    /\ args = [f \in {} |-> <<>>]
    /\ viper = [n \in {} |-> <<>>]

\* an argument that is no pointer to a struct: a struct passed by value, a
\* nil pointer, a pointer to a string
InitInvalid ==
  \E pick \in {<<1>>, <<2, 3>>} :
    /\ \/ spec = [type |-> StructOf(pick), val |-> Filled(StructOf(pick))]
       \/ spec = [type |-> PtrT(StructOf(pick)), val |-> Nil]
       \/ spec = [type |-> PtrT(StringT), val |-> <<V_old>>]
    /\ prefix \in Prefixes
    /\ env \in EnvsOver(KeysOf(pick))
    /\ args = [f \in {} |-> <<>>]
    /\ viper = [n \in {} |-> <<>>]

Init ==
  /\ InitResolve
  /\ flags = NoFlags
  /\ bound = NoBound
  /\ last = Idle

InitDiscovery ==
  /\ InitDiscover \/ InitInvalid
  /\ flags = NoFlags
  /\ bound = NoBound
  /\ last = Idle

CallFields ==
  \E r \in {Fields(spec, prefix)} :
     /\ spec' = [spec EXCEPT !.val = r.val]
     /\ last' = Result("Fields", r.err, 0, r.fields, <<>>, NoNames, EmptyMap)
     /\ UNCHANGED <<prefix, env, flags, bound, viper, args>>

CallProcessEnv ==
  \E r \in {ProcessEnv(spec, prefix, env)} :
     /\ spec' = [spec EXCEPT !.val = r.val]
     /\ last' = Result("ProcessEnv", r.err, r.at, r.fields, <<>>, NoNames, EmptyMap)
     /\ UNCHANGED <<prefix, env, flags, bound, viper, args>>

CallProcessCLI ==
  \E r \in {ProcessCLI(spec, prefix, env, flags, bound, viper)} :
     /\ spec' = [spec EXCEPT !.val = r.val]
     /\ last' = Result("ProcessCLI", r.err, 0, r.fields, r.failed, NoNames, EmptyMap)
     /\ UNCHANGED <<prefix, env, flags, bound, viper, args>>

CallEnvNames ==
  \E r \in {EnvNames(spec, prefix)} :
     /\ spec' = [spec EXCEPT !.val = r.val]
     /\ last' = Result("EnvNames", r.err, 0, r.fields, <<>>, r.names, EmptyMap)
     /\ UNCHANGED <<prefix, env, flags, bound, viper, args>>

CallEnvToMap ==
  \E r \in {EnvToMap(spec, prefix, env)} :
     /\ spec' = [spec EXCEPT !.val = r.val]
     /\ last' = Result("EnvToMap", r.err, r.at, r.fields, <<>>, NoNames, r.result)
     /\ UNCHANGED <<prefix, env, flags, bound, viper, args>>

\* registering a flag twice panics in the flag library: the caller binds a
\* command once
CallBindCLI ==
  /\ flags = NoFlags
  /\ \E r \in {BindCLI(spec, prefix, flags, bound)} :
        /\ spec' = [spec EXCEPT !.val = r.val]
        /\ flags' = r.flags
        /\ bound' = r.bound
        /\ last' = Result("BindCLI", r.err, 0, r.fields, <<>>, NoNames, EmptyMap)
  /\ UNCHANGED <<prefix, env, viper, args>>

\* cmd.Execute parses the command line: a registered flag that is given
\* takes the value and is marked as changed
ParseFlags ==
  /\ \E f \in DOMAIN flags : f \in DOMAIN args /\ ~flags[f].Changed
  /\ flags' = [f \in DOMAIN flags |->
                 IF f \in DOMAIN args
                 THEN [flags[f] EXCEPT !.Value = args[f], !.Changed = TRUE]
                 ELSE flags[f]]
  /\ last' = Result("ParseFlags", NoErr, 0, <<>>, <<>>, NoNames, EmptyMap)
  /\ UNCHANGED <<spec, prefix, env, bound, viper, args>>

\* the calls of a program that resolves its configuration
Next ==
  \/ CallProcessEnv
  \/ CallProcessCLI
  \/ CallBindCLI
  \/ ParseFlags

Spec == Init /\ [][Next]_vars

\* the calls of a program that inspects its configuration: every operation
\* built on Fields, on a structure with no flag to give on the command line
NextDiscovery ==
  \/ CallFields
  \/ CallProcessEnv
  \/ CallProcessCLI
  \/ CallEnvNames
  \/ CallEnvToMap
  \/ CallBindCLI

SpecDiscovery == InitDiscovery /\ [][NextDiscovery]_vars

(***************************************************************************)
(* The functions of the package that a caller may call on their own:       *)
(* CamelSplit, ParseTag and ProcessField, each applied to inputs put       *)
(* together from a few pieces.                                             *)
(***************************************************************************)
MaxNameLen == 3

MaxTokens == 2

MaxPieces == 2

\* the strings made of at most n of the pieces, with sep between them
Joined(pieces, n, sep) ==
  {Join(ps, sep) : ps \in UNION {[1..k -> pieces] : k \in 0..n}}

\* member names: letters of both cases, a digit and an underscore, and the
\* names of the examples
Names ==
  Joined({<<"a">>, <<"b">>, <<"A">>, <<"B">>, <<"1">>, <<"_">>}, MaxNameLen, <<>>)
    \cup {<<"F", "O", "O", "B", "a", "r">>,
         <<"f", "o", "o", "B", "a", "r">>,
         <<"B", "a", "r">>,
         <<"M", "a", "x", "C", "o", "n", "n", "s">>,
         <<"D", "B", "P", "o", "o", "l">>,
         <<InvalidByte>>,
         <<InvalidByte, "A">>,
         <<"a", InvalidByte, "B">>}

\* annotations: well-formed and malformed tokens, with and without spaces
\* around them, and the annotations of the tests
Tags ==
  Joined({<<"e", "n", "v", ":", "F", "O", "O">>,
          <<" ", "e", "n", "v", ":", "F", "O", "O">>,
          <<"e", "n", "v", ":", " ", "F", "O", "O", " ">>,
          <<"e", "n", "v", ":">>,
          <<"k", "e", "y", ":", " ">>,
          <<"d", "e", "f", "a", "u", "l", "t", ":", "X", "Y", "Z">>,
          <<" ", "d", "e", "f", "a", "u", "l", "t", ":", "X", "Y", "Z">>,
          <<"d", "e", "f", "a", "u", "l", "t", ":", "a", ";", "b", "|", "c">>,
          <<"d", "e", "f", "a", "u", "l", "t", ":">>,
          <<"d", "e", "f", "a", "u", "l", "t", ":", "l", "i", "s", "t", "(", "a", ";", "b", ")">>,
          <<"d", "e", "f", "a", "u", "l", "t", ":", "m", "a", "p", "(", "k", "|", "v", ";", "l", "|", "w", ")">>,
          <<"d", "e", "f", "a", "u", "l", "t", ":", "l", "i", "s", "t", "(", " ", "a", " ", ";", "b", ")">>,
          <<"d", "e", "f", "a", "u", "l", "t", ":", "m", "a", "p", "(", "x">>,
          <<"d", "e", "f", "a", "u", "l", "t", ":", "l", "i", "s", "t", "(", "f", "(", "x", ")", ";", "g", ")">>,
          <<"r", "e", "q", "u", "i", "r", "e", "d">>,
          <<" ", "r", "e", "q", "u", "i", "r", "e", "d">>,
          <<"n", "o", "-", "p", "r", "e", "f", "i", "x", " ">>,
          <<"m", "a", "s", "k">>,
          <<"n", "o", "-", "p", "r", "i", "n", "t">>},
         MaxTokens, <<",">>)
    \cup {<<" ", " ", "e", "n", "v", ":", "F", "O", "O", "_", "B", "A", "R", ",", " ", "d", "e", "f", "a", "u", "l", "t", ":", "X", "Y", "Z", ",", " ", "n", "o", "-", "p", "r", "i", "n", "t", ",", "m", "a", "s", "k", ",", " ", "n", "o", "-", "p", "r", "e", "f", "i", "x", ",", " ", " ", " ", " ", "r", "e", "q", "u", "i", "r", "e", "d">>,
         <<"e", "n", "v", ":", "F", "O", "O", "_", "B", "A", "R", ",", "d", "e", "f", "a", "u", "l", "t", ":", "X", "Y", "Z", ",", "n", "o", "-", "p", "r", "i", "n", "t", ",", "m", "a", "s", "k", ",", "n", "o", "-", "p", "r", "e", "f", "i", "x", ",", "r", "e", "q", "u", "i", "r", "e", "d">>,
         <<"d", "e", "f", "a", "u", "l", "t", ":", "l", "i", "s", "t", "(", "a", ";", "b", ";", "c", ";", "d", ")">>,
         <<"d", "e", "f", "a", "u", "l", "t", ":", "m", "a", "p", "(", "k", "1", "|", "v", "1", ";", "k", "2", "|", "v", "2", ")">>,
         <<"e", "n", "v", ":", "F", "O", "O", "_", "B", "A", "R", ",", "d", "e", "f", "a", "u", "l", "t", ":", ",", "r", "e", "q", "u", "i", "r", "e", "d">>}

\* raw values for the built-in kinds: numbers, words, pairs, blanks
RawValues ==
  Joined({<<"3">>,
          <<"1", "0">>,
          <<"x">>,
          <<>>,
          <<" ">>,
          <<"a", ":", "1">>,
          <<"b", ":", "2">>,
          <<"a", ":", "1", ":", "2">>,
          <<"1", ":", "b">>},
         MaxPieces, <<",">>)
    \cup {<<"3", ",", "5", ",", "1", "0", ",", "2", "0">>,
         <<"r", "e", "d", ":", "1", ",", "g", "r", "e", "e", "n", ":", "2", ",", "b", "l", "u", "e", ":", "3">>,
         <<"J", "o", "h", "n", ",", "A", "d", "a", "m", ",", "W", "i", "l", "l">>,
         <<"a", " ", "b">>}

\* destinations with every combination of the four decoding methods, and
\* the values their methods accept ("x") and reject ("!") ...
CustomInputs ==
  {[type |-> CustomT(caps), value |-> v] :
      caps \in SUBSET {Decode, Set, UnmarshalText, UnmarshalBinary},
      v \in {<<"x">>, <<"!">>}}

\* ... and destinations of the built-in kinds
BuiltinInputs ==
  {[type |-> t, value |-> v] :
      t \in {SliceT(IntT), SliceT(StringT), SliceT(Uint8T), PtrT(SliceT(IntT)),
              MapT(StringT, IntT), MapT(IntT, StringT), IntT, StringT},
      v \in RawValues}

InitFunctions ==
  /\ spec = [type |-> PtrT(StringT), val |-> Nil]
  /\ prefix = <<>>
  /\ env = [k \in {} |-> <<>>]
  /\ args = [f \in {} |-> <<>>]
  /\ viper = [n \in {} |-> <<>>]
  /\ flags = NoFlags
  /\ bound = NoBound
  /\ last = Idle

\* the functions keep no state between calls: a call is made from the
\* initial state
CallCamelSplit ==
  /\ last = Idle
  /\ \E src \in Names :
       last' = [op |-> "CamelSplit", src |-> src, out |-> CamelSplit(src)]
  /\ UNCHANGED <<spec, prefix, env, flags, bound, viper, args>>

CallParseTag ==
  /\ last = Idle
  /\ \E t \in Tags :
       last' = [op |-> "ParseTag", t |-> t, out |-> ParseTag(t)]
  /\ UNCHANGED <<spec, prefix, env, flags, bound, viper, args>>

\* the destination holds its zero value or a value of the caller's
CallProcessField ==
  /\ last = Idle
  /\ \E in \in CustomInputs \cup BuiltinInputs :
       \E cur \in {Zero(in.type), Filled(in.type)} :
         last' = [op |-> "ProcessField", value |-> in.value, type |-> in.type, cur |-> cur,
                  out |-> ProcessField(in.value, in.type, cur)]
  /\ UNCHANGED <<spec, prefix, env, flags, bound, viper, args>>

NextFunctions ==
  \/ CallCamelSplit
  \/ CallParseTag
  \/ CallProcessField

SpecFunctions == InitFunctions /\ [][NextFunctions]_vars

(***************************************************************************)
(* Properties of the batch resolution operations.  They are stated on the  *)
(* state right after a call: last holds what the call returned and         *)
(* last.pre the structure as it was before, spec.val the structure now.    *)
(***************************************************************************)
\* the call got past discovery
Discovered == ~ErrContains(last.err, "Fields failed", <<>>)

\* ProcessEnv's loop came to field i (it returns at the first failure)
Reached(i) == last.at = 0 \/ i <= last.at

\* the command line gave the field's flag a value
FlagGiven(f) ==
  /\ CLIFlag(f) \in DOMAIN flags
  /\ flags[CLIFlag(f)].Changed
  /\ flags[CLIFlag(f)].Value # <<>>

\* the config file has an entry under the field's name
InConfig(f) == ToLower(BindName(f)) \in DOMAIN viper

\* the multi-error of ProcessCLI has an entry for the field
FailedFor(f) == \E k \in 1..Len(last.failed) : last.failed[k][1].args[1] = f.Name

\* C1: in ProcessEnv, a field whose key is not set in the environment and
\* whose annotation has no default makes the pass fail with an error naming
\* the field's declared name and its key if it is required; if it is not
\* required it is skipped: the pass does not fail at it and its storage
\* holds what it held before the pass.
C1_MissingWithoutDefault ==
  (last.op = "ProcessEnv" /\ Discovered) =>
    \A i \in 1..Len(last.fields) :
      LET f == last.fields[i]
      IN (Reached(i) /\ f.envVar \notin DOMAIN env /\ ~f.Tag.IsDefault) =>
           IF f.Tag.Required
           THEN /\ last.at = i
                /\ ErrContains(last.err, "required key (%s,%s) missing value",
                               <<f.Name, f.envVar>>)
           ELSE /\ last.at # i
                /\ GetAt(spec.val, f.path) = GetAt(last.pre, f.path)

\* a pass that skipped a field that is not required and then failed at a
\* required one
C1_Witness ==
  /\ last.op = "ProcessEnv"
  /\ \E i, j \in 1..Len(last.fields) :
       /\ i < j
       /\ last.at = j
       /\ last.fields[i].envVar \notin DOMAIN env
       /\ ~last.fields[i].Tag.IsDefault /\ ~last.fields[i].Tag.Required
       /\ last.fields[j].envVar \notin DOMAIN env
       /\ ~last.fields[j].Tag.IsDefault /\ last.fields[j].Tag.Required
       /\ last.err = Failure("required key (%s,%s) missing value",
                             <<last.fields[j].Name, last.fields[j].envVar>>)

C3_EmptyCountsAsAbsent ==
  (last.op \in {"ProcessEnv", "ProcessCLI"} /\ Discovered) =>
    \A i \in 1..Len(last.fields) :
      LET f == last.fields[i]
      IN (/\ Reached(i)
          /\ f.Tag.IsDefault
          /\ f.type = StringT
          /\ f.envVar \in DOMAIN env
          /\ env[f.envVar] = <<>>
          /\ ~FlagGiven(f)) =>
           GetAt(spec.val, f.path) = f.Tag.Default

\* C3: a key set to the empty string on a field with a default: ProcessEnv
\* takes the key as present and decodes the empty string into the field;
\* ProcessCLI decodes the default, unless the command line gave the field's
\* flag a value.
C3_EmptyIsPresentInProcessEnv ==
  (last.op \in {"ProcessEnv", "ProcessCLI"} /\ Discovered) =>
    \A i \in 1..Len(last.fields) :
      LET f == last.fields[i]
      IN (/\ Reached(i)
          /\ f.Tag.IsDefault
          /\ f.type = StringT
          /\ f.envVar \in DOMAIN env
          /\ env[f.envVar] = <<>>) =>
           IF last.op = "ProcessEnv"
           THEN GetAt(spec.val, f.path) = <<>> /\ last.at # i
           ELSE ~FlagGiven(f) => GetAt(spec.val, f.path) = f.Tag.Default

\* a ProcessEnv pass that stored the empty string where a default was declared
C3_Witness ==
  /\ last.op = "ProcessEnv"
  /\ last.err = NoErr
  /\ \E i \in 1..Len(last.fields) :
       LET f == last.fields[i]
       IN /\ f.Tag.IsDefault /\ f.Tag.Default # <<>>
          /\ f.envVar \in DOMAIN env /\ env[f.envVar] = <<>>
          /\ GetAt(last.pre, f.path) # <<>>
          /\ GetAt(spec.val, f.path) = <<>>

\* C4: a field annotated `env:-` is discovered, and no resolution looks it
\* up in the environment: if it has no default and is required, ProcessEnv
\* fails at it with the missing-required error and ProcessCLI records a
\* failure for it, whatever the environment holds.
C4_DashIsNeverLookedUp ==
  (last.op \in {"ProcessEnv", "ProcessCLI"} /\ Discovered) =>
    \A i \in 1..Len(last.fields) :
      LET f == last.fields[i]
      IN (/\ Reached(i)
          /\ f.Tag.EnvVar = <<"-">>
          /\ ~f.Tag.IsDefault
          /\ f.Tag.Required
          /\ ~InConfig(f)) =>
           IF last.op = "ProcessEnv"
           THEN /\ last.at = i
                /\ ErrContains(last.err, "required key (%s,%s) missing value",
                               <<f.Name, f.envVar>>)
           ELSE FailedFor(f)

(***************************************************************************)
(* Properties of discovery.  What the claims call a member that is         *)
(* discovered, a malformed annotation and a leaf is defined here from the  *)
(* declaration of the structure alone.                                     *)
(***************************************************************************)
\* the argument is a non-nil pointer to a struct
ValidSpec ==
  spec.type.kind = "ptr" /\ spec.val # Nil /\ spec.type.elem[1].kind = "struct"

\* the declared type of the caller's structure
Declared == spec.type.elem[1]

\* the type a member's type leads to through its pointers
RECURSIVE Target(_)
Target(t) == IF t.kind = "ptr" THEN Target(t.elem[1]) ELSE t

\* the member is neither unexported nor annotated `-`
Included(m) == m.exported /\ m.tag # <<"-">>

\* the member is a struct (possibly behind pointers) without custom decoding
Plain(m) == Target(m.type).kind = "struct" /\ Target(m.type).caps = {}

\* the annotation has a `key:` token with nothing but spaces after the colon
Malformed(tag) ==
  \E p \in 1..Len(Split(tag, ",")) :
    LET part == Split(tag, ",")[p]
        c == IndexChar(part, ":")
    IN c # 0 /\ TrimSpace(SubSeq(part, c + 1, Len(part))) = <<>>

\* the declared names of the leaves of a struct type, depth-first in
\* declaration order, from member i on
RECURSIVE LeafNames(_, _)
LeafNames(t, i) ==
  IF i > Len(t.members) THEN <<>>
  ELSE LET m == t.members[i]
       IN (IF ~Included(m) THEN <<>>
           ELSE IF Plain(m) THEN LeafNames(Target(m.type), 1)
           ELSE <<m.name>>) \o LeafNames(t, i + 1)

\* the declared names of the included members with a malformed annotation,
\* in a struct type and the plain structs nested in it
RECURSIVE MalformedNames(_)
MalformedNames(t) ==
  UNION {LET m == t.members[i]
         IN IF ~Included(m) THEN {}
            ELSE IF Malformed(m.tag) THEN {m.name}
            ELSE IF Plain(m) THEN MalformedNames(Target(m.type))
            ELSE {} : i \in 1..Len(t.members)}

\* a value with a zero struct put behind every nil pointer to a struct: two
\* structures with the same Materialized value differ in no leaf
RECURSIVE Materialized(_, _)
Materialized(t, v) ==
  CASE t.kind = "struct" -> [i \in 1..Len(t.members) |-> Materialized(t.members[i].type, v[i])]
    [] t.kind = "ptr" ->
         IF v # Nil THEN <<Materialized(t.elem[1], v[1])>>
         ELSE IF t.elem[1].kind = "struct"
         THEN <<Materialized(t.elem[1], Zero(t.elem[1]))>>
         ELSE Nil
    [] OTHER -> v

FieldNames == [i \in 1..Len(last.fields) |-> last.fields[i].Name]

\* the returned fields whose storage lies in member i of the structure
FieldsUnder(i) ==
  SelectSeq(last.fields, LAMBDA f : Len(f.path) >= 2 /\ f.path[2] = i)

\* C5: Fields returns one Field per settable, non-excluded leaf member, in
\* declaration order and depth-first, the Fields of a nested plain struct
\* in the place of the nested member; unexported members and members
\* annotated `-` do not appear, and a struct whose members are all excluded
\* yields the empty sequence and no error.
C5_FieldsInDeclarationOrder ==
  (last.op = "Fields" /\ ValidSpec) =>
    /\ last.err = NoErr => FieldNames = LeafNames(Declared, 1)
    /\ (\A i \in 1..Len(Declared.members) : ~Included(Declared.members[i])) =>
         (last.err = NoErr /\ last.fields = <<>>)

\* a call on a structure whose first member is excluded and whose second is
\* a nested struct: the result is the nested struct's leaves
C5_Witness ==
  /\ last.op = "Fields"
  /\ last.err = NoErr
  /\ ValidSpec
  /\ Len(Declared.members) = 2
  /\ ~Included(Declared.members[1])
  /\ Plain(Declared.members[2])
  /\ Len(last.fields) = 2
  /\ FieldNames = LeafNames(Target(Declared.members[2].type), 1)

\* C6: Fields fails with InvalidSpecFailure, returning no Fields, exactly
\* when its argument is not a pointer or does not point to a struct (a nil
\* pointer points to none); ProcessEnv, ProcessCLI, EnvNames and EnvToMap
\* then return an error and leave the argument's storage as it was.
C6_InvalidSpec ==
  /\ last.op = "Fields" =>
       /\ ErrContains(last.err, InvalidSpecFailure[1].msg, <<>>) <=> ~ValidSpec
       /\ ~ValidSpec => (last.err = InvalidSpecFailure /\ last.fields = <<>>)
  /\ (last.op \in {"ProcessEnv", "ProcessCLI", "EnvNames", "EnvToMap"} /\ ~ValidSpec) =>
       /\ IsErr(last.err)
       /\ spec.val = last.pre
       /\ last.names = NoNames
       /\ last.result = EmptyMap

\* ProcessEnv on a pointer to a string, with the variable set: an error, and
\* the string as it was
C6_Witness ==
  /\ last.op = "ProcessEnv"
  /\ spec.type = PtrT(StringT)
  /\ env # <<>>
  /\ IsErr(last.err)
  /\ spec.val = <<V_old>>

\* C7: when the annotation of a discovered member, at any position and any
\* depth, is malformed, ProcessEnv, ProcessCLI, BindCLI, EnvNames and
\* EnvToMap return an error that wraps `parseTag failed (<declared name>)`,
\* and no leaf of the structure is changed, whatever the sources hold for
\* the members declared before.
C7_DiscoveryFailsFast ==
  (/\ last.op \in {"ProcessEnv", "ProcessCLI", "BindCLI", "EnvNames", "EnvToMap"}
   /\ ValidSpec
   /\ MalformedNames(Declared) # {}) =>
    /\ ErrContains(last.err, "Fields failed", <<>>)
    /\ \E n \in MalformedNames(Declared) :
         ErrContains(last.err, "parseTag failed (%s)", <<n>>)
    /\ Materialized(spec.type, spec.val) = Materialized(spec.type, last.pre)
    /\ last.names = NoNames
    /\ last.result = EmptyMap

\* ProcessEnv on a structure whose second member is malformed, with the
\* first member's variable set: the first member is as it was
C7_Witness ==
  /\ last.op = "ProcessEnv"
  /\ ValidSpec
  /\ Len(Declared.members) >= 2
  /\ Malformed(Declared.members[2].tag)
  /\ Len(last.fields) = 1
  /\ last.fields[1].envVar \in DOMAIN env
  /\ env[last.fields[1].envVar] # GetAt(last.pre, last.fields[1].path)
  /\ GetAt(spec.val, last.fields[1].path) = GetAt(last.pre, last.fields[1].path)
  /\ ErrContains(last.err, "parseTag failed (%s)", <<Declared.members[2].name>>)

\* C8: discovery replaces a nil pointer member whose target is a struct by
\* a pointer to a zero-value struct, and the Fields of its inner members
\* address the new instance, so that a resolution pass can set them; a nil
\* pointer member whose target is not a struct stays nil and is one leaf
\* Field whose storage is the pointer itself.
C8_NilPointerMembers ==
  /\ (last.op = "Fields" /\ ValidSpec /\ last.err = NoErr) =>
       \A i \in 1..Len(Declared.members) :
         LET m == Declared.members[i]
             under == FieldsUnder(i)
         IN (/\ Included(m)
             /\ m.type.kind = "ptr"
             /\ m.type.elem[1].kind # "ptr"
             /\ last.pre[1][i] = Nil) =>
              IF m.type.elem[1].kind = "struct"
              THEN /\ spec.val[1][i] # Nil
                   /\ Materialized(m.type, spec.val[1][i]) = Materialized(m.type, Nil)
                   /\ \A k \in 1..Len(under) : SubSeq(under[k].path, 1, 3) = <<1, i, 1>>
                   /\ Plain(m) =>
                        [k \in 1..Len(under) |-> under[k].Name] = LeafNames(m.type.elem[1], 1)
              ELSE /\ spec.val[1][i] = Nil
                   /\ Len(under) = 1
                   /\ under[1].Name = m.name
                   /\ under[1].path = <<1, i>>
                   /\ under[1].type = m.type
  /\ (last.op = "ProcessEnv" /\ ValidSpec /\ last.err = NoErr) =>
       \A k \in 1..Len(last.fields) :
         LET f == last.fields[k]
         IN (Len(f.path) > 2 /\ f.type = StringT /\ f.envVar \in DOMAIN env) =>
              GetAt(spec.val, f.path) = env[f.envVar]

\* a call on a structure with a nil pointer to a struct and a nil pointer to
\* a string
C8_Witness ==
  /\ last.op = "Fields"
  /\ last.err = NoErr
  /\ ValidSpec
  /\ \E i, j \in 1..Len(Declared.members) :
       /\ Plain(Declared.members[i])
       /\ Declared.members[i].type.kind = "ptr"
       /\ last.pre[1][i] = Nil
       /\ spec.val[1][i] # Nil
       /\ Len(FieldsUnder(i)) = 1
       /\ Declared.members[j].type = PtrT(StringT)
       /\ spec.val[1][j] = Nil
       /\ FieldsUnder(j)[1].path = <<1, j>>

\* C9: a struct-typed member, named or reached through a pointer, that has
\* one of the methods Decode, Set, UnmarshalText, UnmarshalBinary is one
\* leaf Field and none of its inner members is discovered; a struct member
\* that has none of them is no Field itself: its inner members are.
C9_CustomStructsAreLeaves ==
  (last.op = "Fields" /\ ValidSpec /\ last.err = NoErr) =>
    \A i \in 1..Len(Declared.members) :
      LET m == Declared.members[i]
          under == FieldsUnder(i)
      IN (Included(m) /\ Target(m.type).kind = "struct") =>
           IF Target(m.type).caps # {}
           THEN /\ Len(under) = 1
                /\ under[1].Name = m.name
                /\ under[1].type = Target(m.type)
           ELSE /\ [k \in 1..Len(under) |-> under[k].Name] = LeafNames(Target(m.type), 1)
                /\ \A k \in 1..Len(under) :
                     /\ under[k].type # Target(m.type)
                     /\ Len(under[k].path) > 2

\* a call on a structure with a member that has a method and a nested
\* struct that has none
C9_Witness ==
  /\ last.op = "Fields"
  /\ last.err = NoErr
  /\ ValidSpec
  /\ \E i, j \in 1..Len(Declared.members) :
       /\ Declared.members[i].type.kind = "struct"
       /\ Declared.members[i].type.caps # {}
       /\ Len(Declared.members[i].type.members) = 1
       /\ Len(FieldsUnder(i)) = 1
       /\ FieldsUnder(i)[1].Name = Declared.members[i].name
       /\ Plain(Declared.members[j])
       /\ Len(FieldsUnder(j)) = 2

\* the first member in which discovery fails is a nested plain struct with a
\* malformed annotation inside
InnerFailure ==
  \E i \in 1..Len(Declared.members) :
    /\ Included(Declared.members[i])
    /\ ~Malformed(Declared.members[i].tag)
    /\ Plain(Declared.members[i])
    /\ MalformedNames(Target(Declared.members[i].type)) # {}
    /\ \A j \in 1..(i - 1) :
         MalformedNames(StructT({}, <<Declared.members[j]>>)) = {}

\* C10: when the discovery of a nested struct member fails, the error of
\* Fields contains `Fields failed for embedded struct` and wraps the inner
\* error, which names the inner field.
C10_EmbeddedFailureMessage ==
  (last.op = "Fields" /\ ValidSpec /\ InnerFailure) =>
    /\ ErrContains(last.err, "Fields failed for embedded struct", <<>>)
    /\ \E n \in MalformedNames(Declared) :
         ErrContains(last.err, "parseTag failed (%s)", <<n>>)


(***************************************************************************)
(* Properties of the keys.                                                 *)
(***************************************************************************)
\* the struct type declares no annotation, at any depth
RECURSIVE Unannotated(_)
Unannotated(t) ==
  \A i \in 1..Len(t.members) :
    /\ t.members[i].tag = <<>>
    /\ Target(t.members[i].type).kind = "struct" => Unannotated(Target(t.members[i].type))

\* the keys the claim derives for the leaves of a struct type without
\* annotations, from member i on: chain holds the root prefix and the camel
\* segments of the enclosing members
RECURSIVE DerivedKeys(_, _, _)
DerivedKeys(t, chain, i) ==
  IF i > Len(t.members) THEN <<>>
  ELSE LET m == t.members[i]
           own == chain \o CamelSplit(m.name)
       IN (IF ~Included(m) THEN <<>>
           ELSE IF Plain(m) THEN DerivedKeys(Target(m.type), own, 1)
           ELSE <<ToUpper(Join(own, <<"_">>))>>) \o DerivedKeys(t, chain, i + 1)

FieldKeys == [i \in 1..Len(last.fields) |-> last.fields[i].envVar]

ClaimedKey(m, chain) ==
  LET opts == ParseTag(m.tag).tag
      derived == CamelSplit(m.name)
  IN IF opts.NoPrefix
     THEN IF opts.EnvVar # <<>> THEN opts.EnvVar ELSE ToUpper(Join(derived, <<"_">>))
     ELSE IF opts.EnvVar # <<>> THEN ToUpper(Join(chain, <<"_">>)) \o
                                       (IF chain = <<>> THEN <<>> ELSE <<"_">>) \o opts.EnvVar
     ELSE ToUpper(Join(chain \o derived, <<"_">>))

\* the claimed keys of the leaves of a struct type, from member i on
RECURSIVE ClaimedKeys(_, _, _)
ClaimedKeys(t, chain, i) ==
  IF i > Len(t.members) THEN <<>>
  ELSE LET m == t.members[i]
       IN (IF ~Included(m) THEN <<>>
           ELSE IF Plain(m) THEN ClaimedKeys(Target(m.type), chain \o CamelSplit(m.name), 1)
           ELSE <<ClaimedKey(m, chain)>>) \o ClaimedKeys(t, chain, i + 1)

\* C13: the key of a field annotated no-prefix holds neither the root
\* prefix nor a segment of an enclosing member: it is the override as
\* written, or without an override the field's own camel-derived name.
C13_NoPrefixKeys ==
  (last.op = "Fields" /\ ValidSpec /\ last.err = NoErr) =>
    \A i \in 1..Len(last.fields) :
      last.fields[i].Tag.NoPrefix =>
        last.fields[i].envVar = ClaimedKeys(Declared, prefix, 1)[i]

\* C14: the key of a field with an override and without no-prefix is the
\* root prefix and the segments of the enclosing members, joined with
\* underscores, followed by the override; no segment of the field's own
\* name is part of it.
C14_OverrideKeepsPrefixChain ==
  (last.op = "Fields" /\ ValidSpec /\ last.err = NoErr) =>
    \A i \in 1..Len(last.fields) :
      (last.fields[i].Tag.EnvVar # <<>> /\ ~last.fields[i].Tag.NoPrefix) =>
        last.fields[i].envVar = ClaimedKeys(Declared, prefix, 1)[i]

(***************************************************************************)
(* Properties of CamelSplit, ParseTag and ProcessField.  last holds the    *)
(* call's input and what it returned (out).                                *)
(***************************************************************************)
\* the positions of src at which the segments of out begin, the first at 1
RECURSIVE SegmentStarts(_, _)
SegmentStarts(out, at) ==
  IF out = <<>> THEN {} ELSE {at} \cup SegmentStarts(Tail(out), at + Len(out[1]))

\* C12: CamelSplit begins a segment at every upper-case letter that follows
\* a lower-case one, and at the last letter of a run of two or more
\* upper-case letters that a lower-case letter follows; it never splits
\* between an upper-case letter and the lower-case letter after it, so a
\* single capital with lower-case letters behind it is one segment.
\* "FOOBar" gives FOO, Bar; "fooBar" gives foo, Bar; "" gives no segment.
C12_CamelSplitBoundaries ==
  last.op = "CamelSplit" =>
    LET src == last.src
        starts == SegmentStarts(last.out, 1)
    IN /\ \A k \in 2..Len(src) :
            (IsLower(src[k - 1]) /\ IsUpper(src[k])) => k \in starts
       /\ \A k \in 2..(Len(src) - 1) :
            (IsUpper(src[k - 1]) /\ IsUpper(src[k]) /\ IsLower(src[k + 1])) => k \in starts
       /\ \A k \in 2..Len(src) :
            (IsUpper(src[k - 1]) /\ IsLower(src[k])) => k \notin starts
       /\ src = <<"F", "O", "O", "B", "a", "r">> => last.out = <<<<"F", "O", "O">>, <<"B", "a", "r">>>>
       /\ src = <<"f", "o", "o", "B", "a", "r">> => last.out = <<<<"f", "o", "o">>, <<"B", "a", "r">>>>
       /\ src = <<"B", "a", "r">> => last.out = <<<<"B", "a", "r">>>>
       /\ src = <<>> => last.out = <<>>

\* a name with a run of capitals before a capitalised word
C12_Witness ==
  /\ last.op = "CamelSplit"
  /\ last.src = <<"F", "O", "O", "B", "a", "r">>
  /\ last.out = <<<<"F", "O", "O">>, <<"B", "a", "r">>>>

\* the string is empty or holds nothing but spaces
Blank(s) == \A i \in 1..Len(s) : s[i] = " "

\* s without the spaces at its ends
RECURSIVE Unspaced(_)
Unspaced(s) ==
  IF Len(s) > 0 /\ s[1] = " " THEN Unspaced(Tail(s))
  ELSE IF Len(s) > 0 /\ s[Len(s)] = " " THEN Unspaced(SubSeq(s, 1, Len(s) - 1))
  ELSE s

\* the token without the spaces around it, its key and its value
UnspacedToken(part) ==
  LET c == IndexChar(part, ":")
  IN IF c = 0 THEN Unspaced(part)
     ELSE Unspaced(SubSeq(part, 1, c - 1)) \o <<":">> \o Unspaced(SubSeq(part, c + 1, Len(part)))

\* the annotation without the spaces around its tokens, keys and values
UnspacedTag(t) ==
  Join([p \in 1..Len(Split(t, ",")) |-> UnspacedToken(Split(t, ",")[p])], <<",">>)

\* C15: an annotation with spaces before or after its tokens and values
\* parses to the Tag of the annotation without those spaces.
C15_SpacesAreTrimmed ==
  (last.op = "ParseTag" /\ ~IsErr(ParseTag(UnspacedTag(last.t)).err)) =>
    last.out = ParseTag(UnspacedTag(last.t))

\* the token has a colon with nothing but spaces behind it
EmptyValued(part) ==
  IndexChar(part, ":") # 0 /\ Blank(SubSeq(part, IndexChar(part, ":") + 1, Len(part)))

\* the tokens of the last annotation with an empty value
EmptyValuedTokens ==
  {p \in 1..Len(Split(last.t, ",")) : EmptyValued(Split(last.t, ",")[p])}

\* the position of the first of them, 0 when there is none
FirstEmptyValued ==
  IF EmptyValuedTokens = {} THEN 0
  ELSE CHOOSE p \in EmptyValuedTokens : \A q \in EmptyValuedTokens : p <= q

\* the token is `default:` with a bracketed value that does not end with ")"
Unclosed(part) ==
  LET c == IndexChar(part, ":")
      v == Unspaced(SubSeq(part, c + 1, Len(part)))
  IN /\ c # 0
     /\ SubSeq(part, 1, c - 1) = S_default
     /\ Contains(v, S_mapOpen) \/ Contains(v, S_listOpen)
     /\ v[Len(v)] # ")"

\* the error that names the key of the first token with an empty value
MissingValueOfFirst ==
  Failure("tag (%q) missing a value",
          <<SubSeq(Split(last.t, ",")[FirstEmptyValued], 1,
                   IndexChar(Split(last.t, ",")[FirstEmptyValued], ":") - 1)>>)

\* C16 as the claim states it: whatever comes before it, the first token
\* with an empty value is the one the error names.
C16_ErrorNamesFirstEmptyValue ==
  (last.op = "ParseTag" /\ EmptyValuedTokens # {}) => last.out.err = MissingValueOfFirst

\* C16: ParseTag fails for every annotation with a `key:value` token whose
\* value is empty after trimming, whatever the key and the position.  The
\* error names the key of the first such token, unless a token before it is
\* a bracketed default without its closing parenthesis: then ParseTag
\* fails at that token.  The empty annotation gives the zero Tag and no
\* error.
C16_EmptyValueFails ==
  last.op = "ParseTag" =>
    /\ last.t = <<>> => last.out = [tag |-> ZeroTag, err |-> NoErr]
    /\ EmptyValuedTokens # {} =>
         IF \E p \in 1..(FirstEmptyValued - 1) : Unclosed(Split(last.t, ",")[p])
         THEN ErrContains(last.out.err, "normalizeDefaultValueMapOrList failed", <<>>)
         ELSE last.out.err = MissingValueOfFirst

\* an annotation whose second token has a value of spaces only
C16_Witness ==
  /\ last.op = "ParseTag"
  /\ Len(Split(last.t, ",")) = 2
  /\ EmptyValuedTokens = {2}
  /\ Split(last.t, ",")[2] # SubSeq(Split(last.t, ",")[2], 1, IndexChar(Split(last.t, ",")[2], ":"))
  /\ last.out.err = MissingValueOfFirst

\* the annotation is `default:` followed by wrapper, inner and ")"
Bracketed(t, wrapper) ==
  /\ Len(t) > Len(S_default) + 1 + Len(wrapper)
  /\ SubSeq(t, 1, Len(S_default) + 1 + Len(wrapper)) = S_default \o <<":">> \o wrapper
  /\ t[Len(t)] = ")"
  /\ "," \notin {t[i] : i \in 1..Len(t)}

\* what the brackets of such an annotation enclose
Inner(t, wrapper) == SubSeq(t, Len(S_default) + 2 + Len(wrapper), Len(t) - 1)

\* C17: `default:list(...)` and `default:map(...)` store what the brackets
\* enclose with every ";" turned into "," and every "|" into ":", spaces
\* kept, and set IsDefault; a default without brackets is stored as it is.
C17_CanonicalDefault ==
  last.op = "ParseTag" =>
    /\ \A wrapper \in {S_listOpen, S_mapOpen} :
         Bracketed(last.t, wrapper) =>
           /\ last.out.err = NoErr
           /\ last.out.tag.IsDefault
           /\ last.out.tag.Default =
                ReplaceChar(ReplaceChar(Inner(last.t, wrapper), "|", ":"), ";", ",")
    /\ (/\ Len(Split(last.t, ",")) = 1
        /\ Len(last.t) > Len(S_default) + 1
        /\ SubSeq(last.t, 1, Len(S_default) + 1) = S_default \o <<":">>
        /\ "(" \notin {last.t[i] : i \in 1..Len(last.t)}) =>
         /\ last.out.err = NoErr
         /\ last.out.tag.IsDefault
         /\ last.out.tag.Default = SubSeq(last.t, Len(S_default) + 2, Len(last.t))

\* the capability of highest priority among caps
FirstCapability(caps) ==
  IF Decode \in caps THEN Decode
  ELSE IF Set \in caps THEN Set
  ELSE IF UnmarshalText \in caps THEN UnmarshalText
  ELSE UnmarshalBinary

\* the message ProcessField puts around the error of a capability
CapabilityMessage(cap) ==
  CASE cap = Decode -> "decoder.Decode failed (%s)"
    [] cap = Set -> "setter.Set failed (%s)"
    [] cap = UnmarshalText -> "t.UnmarshalText failed (%s)"
    [] cap = UnmarshalBinary -> "b.UnmarshalBinary failed (%s)"

\* C18: ProcessField uses exactly one capability of the destination, the
\* first it has of Decode, Set, UnmarshalText, UnmarshalBinary: the
\* destination holds what that method stored and nothing a later one or
\* the built-in handling would store, and the method's error comes back as
\* the failure; a destination without capability gets the built-in
\* handling of its kind.
C18_CapabilityOrder ==
  (last.op = "ProcessField" /\ last.type.kind = "struct") =>
    IF last.type.caps = {}
    THEN last.out = [val |-> last.cur, err |-> NoErr]
    ELSE IF last.value = <<"!">>
    THEN /\ last.out.val = last.cur
         /\ last.out.err = Wrap(Failure("method failed", <<last.value>>),
                                CapabilityMessage(FirstCapability(last.type.caps)),
                                <<last.value>>)
    ELSE /\ last.out.err = NoErr
         /\ last.out.val =
              [last.cur EXCEPT ![1] = MethodMark(FirstCapability(last.type.caps)) \o last.value]

\* a destination with all four capabilities was decoded by Decode
C18_Witness ==
  /\ last.op = "ProcessField"
  /\ last.type.caps = {Decode, Set, UnmarshalText, UnmarshalBinary}
  /\ last.value = <<"x">>
  /\ last.out.err = NoErr
  /\ last.out.val[1] = <<"D", "=", "x">>

\* the pieces of the last raw value, each decoded into the type t
DecodedPieces(t) ==
  [i \in 1..Len(Split(last.value, ",")) |->
     ProcessField(Split(last.value, ",")[i], t, Zero(t))]

\* C19: a slice of bytes receives the raw value as it is; any other slice
\* is empty for a raw value that is empty or spaces only, and has
\* otherwise one element for each piece between the commas, the i-th
\* element decoded from the i-th piece ("3,5,10,20" gives 3, 5, 10, 20);
\* when a piece cannot be decoded the call fails and the destination keeps
\* its content.
C19_SliceDecoding ==
  (last.op = "ProcessField" /\ last.type.kind = "slice") =>
    IF last.type.elem[1].kind = "uint8"
    THEN last.out = [val |-> last.value, err |-> NoErr]
    ELSE IF Blank(last.value)
    THEN last.out = [val |-> <<>>, err |-> NoErr]
    ELSE IF \E i \in DOMAIN DecodedPieces(last.type.elem[1]) :
              IsErr(DecodedPieces(last.type.elem[1])[i].err)
    THEN IsErr(last.out.err) /\ last.out.val = last.cur
    ELSE /\ last.out.err = NoErr
         /\ Len(last.out.val) = Len(Split(last.value, ","))
         /\ \A i \in 1..Len(last.out.val) :
              last.out.val[i] = DecodedPieces(last.type.elem[1])[i].val
         /\ (last.value = <<"3", ",", "5", ",", "1", "0", ",", "2", "0">>
               /\ last.type.elem[1].kind = "int") => last.out.val = <<3, 5, 10, 20>>

\* "3,5,10,20" was decoded into a slice of integers that held an element
C19_Witness ==
  /\ last.op = "ProcessField"
  /\ last.type.kind = "slice"
  /\ last.type.elem[1].kind = "int"
  /\ last.value = <<"3", ",", "5", ",", "1", "0", ",", "2", "0">>
  /\ last.cur # <<>>
  /\ last.out = [val |-> <<3, 5, 10, 20>>, err |-> NoErr]

\* the number of colons in the pair
Colons(pair) == Cardinality({i \in 1..Len(pair) : pair[i] = ":"})

\* the key and the value of the p-th pair of the last raw value, decoded
\* into the key type and the element type of the map
DecodedKey(p) ==
  LET pair == Split(last.value, ",")[p]
  IN ProcessField(SubSeq(pair, 1, IndexChar(pair, ":") - 1),
                  last.type.key[1], Zero(last.type.key[1]))

DecodedValue(p) ==
  LET pair == Split(last.value, ",")[p]
  IN ProcessField(SubSeq(pair, IndexChar(pair, ":") + 1, Len(pair)),
                  last.type.elem[1], Zero(last.type.elem[1]))

\* C20: a map is empty for a raw value that is empty or spaces only;
\* otherwise the raw value is split on "," into pairs, the call fails when
\* a pair does not hold exactly one ":" or a side cannot be decoded, and
\* else the map holds exactly the decoded keys, each with the decoded value
\* of its last pair.
C20_MapDecoding ==
  (last.op = "ProcessField" /\ last.type.kind = "map") =>
    IF Blank(last.value)
    THEN last.out = [val |-> <<>>, err |-> NoErr]
    ELSE IF \E p \in 1..Len(Split(last.value, ",")) : Colons(Split(last.value, ",")[p]) # 1
    THEN IsErr(last.out.err) /\ last.out.val = last.cur
    ELSE IF \E p \in 1..Len(Split(last.value, ",")) :
              IsErr(DecodedKey(p).err) \/ IsErr(DecodedValue(p).err)
    THEN IsErr(last.out.err) /\ last.out.val = last.cur
    ELSE /\ last.out.err = NoErr
         /\ DOMAIN last.out.val = {DecodedKey(p).val : p \in 1..Len(Split(last.value, ","))}
         /\ \A p \in 1..Len(Split(last.value, ",")) :
              (\A q \in (p + 1)..Len(Split(last.value, ",")) :
                 DecodedKey(q).val # DecodedKey(p).val) =>
                last.out.val[DecodedKey(p).val] = DecodedValue(p).val

\* a good pair followed by a pair with two colons made the call fail at the
\* second pair
C20_Witness ==
  /\ last.op = "ProcessField"
  /\ last.type.kind = "map"
  /\ last.value = <<"a", ":", "1", ",", "a", ":", "1", ":", "2">>
  /\ last.out.err = Failure("invalid map item: (pair: %q)", <<<<"a", ":", "1", ":", "2">>>>)
  /\ last.out.val = last.cur

\* the destination's type is a sequence or a mapping, or a pointer to one
Composite(t) ==
  \/ t.kind \in {"slice", "map"}
  \/ t.kind = "ptr" /\ t.elem[1].kind \in {"slice", "map"}

\* C28: when ProcessField decodes a sequence or a mapping and an element,
\* a key, a value or a pair fails, it returns an error and the destination
\* holds exactly the value it had before the call.
C28_CompositeAllOrNothing ==
  (last.op = "ProcessField" /\ Composite(last.type) /\ IsErr(last.out.err)) =>
    last.out.val = last.cur

\* the segments put together again
RECURSIVE Concat(_)
Concat(segs) == IF segs = <<>> THEN <<>> ELSE Head(segs) \o Concat(Tail(segs))

\* C29: the segments CamelSplit returns are all non-empty, and put together
\* in order they are the input: nothing is lost, doubled or moved,
\* whatever the input string holds (digits, underscores, other bytes, a
\* single character).
C29_CamelSplitKeepsCharacters ==
  last.op = "CamelSplit" =>
    /\ \A k \in 1..Len(last.out) : last.out[k] # <<>>
    /\ Concat(last.out) = last.src

(***************************************************************************)
(* Properties of the Fields as the caller holds them after discovery.      *)
(***************************************************************************)
\* C30: after Fields has returned, the key of every Field is its EnvKey
\* joined with underscores and upper-cased: the segments stored in a Field
\* are not altered when the key of a later member is derived.
C30_EnvVarMatchesEnvKey ==
  (last.op = "Fields" /\ ValidSpec /\ last.err = NoErr) =>
    \A i \in 1..Len(last.fields) :
      last.fields[i].envVar = ToUpper(Join(last.fields[i].EnvKey, <<"_">>))
\* C22: a ProcessEnv pass that follows a ProcessEnv pass on the same
\* structure, with the environment as it was, leaves every field as the
\* first pass left it and returns the same error or none.
C22_SecondPassChangesNothing ==
  [][(last.op = "ProcessEnv" /\ last'.op = "ProcessEnv") =>
       (spec'.val = spec.val /\ env' = env /\ last'.err = last.err)]_vars

\* a second pass was made over a structure with a map whose key is set to
\* the empty string, which only ProcessEnv decodes into an empty map
C22_Witness ==
  /\ last.op = "ProcessEnv"
  /\ last.pre = spec.val
  /\ \E i \in 1..Len(last.fields) :
       LET f == last.fields[i]
       IN /\ f.type.kind = "map"
          /\ f.Tag.IsDefault
          /\ f.envVar \in DOMAIN env
          /\ env[f.envVar] = <<>>
          /\ GetAt(spec.val, f.path) = <<>>

(***************************************************************************)
(* Properties of the resolution passes over every source.                  *)
(***************************************************************************)
\* no source has a value for the field: its flag was not given, its key is
\* not set in the environment and the config file has no entry for it
Unsupplied(f) ==
  /\ ~FlagGiven(f)
  /\ f.envVar \notin DOMAIN env
  /\ ~InConfig(f)

\* C25: in ProcessCLI, a field of a built-in type that no source has a
\* value for and that has no default causes no error and keeps its value
\* if it is not required, and contributes the failure `required key (...)
\* missing value` with its name if it is required.
C25_UnsuppliedFieldInProcessCLI ==
  (last.op = "ProcessCLI" /\ Discovered) =>
    \A i \in 1..Len(last.fields) :
      LET f == last.fields[i]
      IN (/\ f.type.caps = {}
          /\ Unsupplied(f)
          /\ ~f.Tag.IsDefault) =>
           IF f.Tag.Required
           THEN \E k \in 1..Len(last.failed) :
                  last.failed[k] =
                    Failure("required key (field:%s,env:%s,cli:%s) missing value",
                            <<f.Name, f.envVar, CLIFlag(f)>>)
           ELSE /\ ~FailedFor(f)
                /\ GetAt(spec.val, f.path) = GetAt(last.pre, f.path)

\* the pass skips the field: nothing has a value for it, it has no default
\* and it is not required
Skipped(f) ==
  /\ ~f.Tag.IsDefault
  /\ ~f.Tag.Required
  /\ IF last.op = "ProcessEnv" THEN f.envVar \notin DOMAIN env ELSE Unsupplied(f)

\* the environment has an entry for the field's key, or the field has a
\* default
Entered(f) == f.envVar \in DOMAIN env \/ f.Tag.IsDefault

\* C21: a nil pointer member to a type that is no struct is given storage
\* only when a value is produced: after a resolution pass it is still nil
\* if the field was skipped, and it points to the decoded value if its key
\* had an entry or a default and the pass did not fail at it.
C21_PointerAllocatedOnlyWithValue ==
  (last.op \in {"ProcessEnv", "ProcessCLI"} /\ Discovered) =>
    \A i \in 1..Len(last.fields) :
      LET f == last.fields[i]
          before == GetAt(last.pre, f.path)
          after == GetAt(spec.val, f.path)
      IN (/\ Reached(i)
          /\ f.type.kind = "ptr"
          /\ f.type.caps = {}
          /\ f.type.elem[1].caps = {}
          /\ before = Nil) =>
           /\ Skipped(f) => after = Nil
           /\ (Entered(f) /\ last.at # i /\ ~FailedFor(f)) =>
                /\ after # Nil
                /\ (f.type.elem[1].kind = "string" /\ f.envVar \in DOMAIN env
                      /\ (last.op = "ProcessCLI" => ~FlagGiven(f) /\ env[f.envVar] # <<>>)) =>
                     after = <<env[f.envVar]>>
                /\ (f.type.elem[1].kind = "int" /\ f.envVar \in DOMAIN env
                      /\ env[f.envVar] = V_7) => after = <<7>>

\* the config file's entry for the field, as a string
ConfigValue(f) ==
  LET d == viper[ToLower(BindName(f))]
  IN IF d.t = "int" THEN Itoa(d.v) ELSE d.v

\* the value of the first source, in the order command line, environment,
\* config file, that has something for the field; the config file is asked
\* only if the key is `-` or not set in the environment
Preferred(f) ==
  IF FlagGiven(f) THEN flags[CLIFlag(f)].Value
  ELSE IF f.envVar # <<"-">> /\ f.envVar \in DOMAIN env THEN env[f.envVar]
  ELSE IF InConfig(f) THEN ConfigValue(f)
  ELSE <<>>

\* C24: ProcessCLI resolves a field from the flag the user gave (changed
\* and not empty); else from the environment if the key is set; else, and
\* only if the key is not set or is `-`, from the config file; the default
\* is decoded only when these gave no value.
C24_SourcePriority ==
  (last.op = "ProcessCLI" /\ Discovered) =>
    \A i \in 1..Len(last.fields) :
      LET f == last.fields[i]
          before == GetAt(last.pre, f.path)
          after == GetAt(spec.val, f.path)
          offered == IF Preferred(f) = <<>> /\ f.Tag.IsDefault
                     THEN f.Tag.Default ELSE Preferred(f)
      IN IF Preferred(f) = <<>> /\ ~f.Tag.IsDefault /\ f.Tag.Required
         THEN after = before /\ FailedFor(f)
         ELSE /\ after = ProcessField(offered, f.type, before).val
              /\ FailedFor(f) <=> IsErr(ProcessField(offered, f.type, before).err)
              /\ f.type = StringT => after = offered

\* a pass over a field for which the command line, the environment and the
\* config file each had a value of their own, and that has a default: the
\* field holds the value of the command line
C24_Witness ==
  /\ last.op = "ProcessCLI"
  /\ last.err = NoErr
  /\ \E i \in 1..Len(last.fields) :
       LET f == last.fields[i]
       IN /\ FlagGiven(f)
          /\ f.envVar \in DOMAIN env
          /\ env[f.envVar] = V_7
          /\ InConfig(f)
          /\ ConfigValue(f) = V_cfg
          /\ f.Tag.IsDefault
          /\ GetAt(spec.val, f.path) = V_foobar

\* what ProcessEnv decodes into the field: the environment's entry, or the
\* default when the key is not set
EnvOffered(f) ==
  IF f.envVar \in DOMAIN env THEN env[f.envVar] ELSE f.Tag.Default

\* ProcessEnv has nothing to decode into the field
EnvAbsent(f) == f.envVar \notin DOMAIN env /\ ~f.Tag.IsDefault

\* the field is one ProcessEnv fails at: required and nothing to decode,
\* or a value that cannot be decoded
FailsInEnv(f) ==
  IF EnvAbsent(f) THEN f.Tag.Required
  ELSE IsErr(ProcessField(EnvOffered(f), f.type, GetAt(last.pre, f.path)).err)

\* what ProcessCLI decodes into the field
CLIOffered(f) ==
  IF Preferred(f) = <<>> /\ f.Tag.IsDefault THEN f.Tag.Default ELSE Preferred(f)

\* the field is one ProcessCLI fails at
FailsInCLI(f) ==
  IF Preferred(f) = <<>> /\ ~f.Tag.IsDefault /\ f.Tag.Required THEN TRUE
  ELSE IsErr(ProcessField(CLIOffered(f), f.type, GetAt(last.pre, f.path)).err)

\* the fields of the last pass that fail
Failing ==
  {i \in 1..Len(last.fields) :
     IF last.op = "ProcessEnv" THEN FailsInEnv(last.fields[i]) ELSE FailsInCLI(last.fields[i])}

ReservedNames ==
  {<<"A", "P", "P", "_", "N", "A", "M", "E">>,
   <<"A", "W", "S", "_", "P", "R", "O", "F", "I", "L", "E">>,
   <<"A", "W", "S", "_", "R", "E", "G", "I", "O", "N">>,
   <<"A", "W", "S", "_", "L", "A", "M", "B", "D", "A", "_", "F", "U", "N", "C", "T", "I", "O", "N", "_", "N", "A", "M", "E">>}

\* the field's key is reported
Listed(f) == f.envVar # <<"-">> /\ f.envVar \notin ReservedNames

\* the keys that are reported, in the order of discovery
ListedKeys ==
  LET sel == SelectSeq(last.fields, Listed)
  IN [i \in 1..Len(sel) |-> sel[i].envVar]

\* a reported field that is required and has neither an entry nor a default
MissingRequired(f) ==
  /\ Listed(f)
  /\ f.envVar \notin DOMAIN env
  /\ ~f.Tag.IsDefault
  /\ f.Tag.Required

\* the first such field, 0 when there is none
FirstMissing ==
  LET S == {i \in 1..Len(last.fields) : MissingRequired(last.fields[i])}
  IN IF S = {} THEN 0 ELSE CHOOSE i \in S : \A j \in S : i <= j

FirstFailingMember ==
  LET S == {i \in 1..Len(Declared.members) :
              LET m == Declared.members[i]
              IN /\ Included(m)
                 /\ \/ Malformed(m.tag)
                    \/ Plain(m) /\ MalformedNames(Target(m.type)) # {}}
  IN IF S = {} THEN 0 ELSE CHOOSE i \in S : \A j \in S : i <= j

\* C27: Fields, and with it EnvNames, EnvToMap and BindCLI, changes no
\* leaf value of the structure: all it does to it is to put a pointer to a
\* zero-value struct where a pointer to a struct was nil, and it does that
\* for the members before the one at which discovery fails as well.
C27_DiscoveryOnlyMaterializes ==
  (last.op \in {"Fields", "EnvNames", "EnvToMap", "BindCLI"} /\ ValidSpec) =>
    /\ Materialized(spec.type, spec.val) = Materialized(spec.type, last.pre)
    /\ FirstFailingMember # 0 => IsErr(last.err)
    /\ (last.op = "Fields" /\ IsErr(last.err)) => FirstFailingMember # 0
    /\ \A i \in 1..Len(Declared.members) :
         LET m == Declared.members[i]
         IN (/\ Included(m)
             /\ m.type.kind = "ptr"
             /\ m.type.elem[1].kind = "struct"
             /\ last.pre[1][i] = Nil
             /\ FirstFailingMember = 0 \/ i < FirstFailingMember) =>
              /\ spec.val[1][i] # Nil
              /\ Materialized(m.type, spec.val[1][i]) = Materialized(m.type, Nil)

\* discovery failed at the second member after it had put a zero-value
\* struct behind the first, a nil pointer
C27_Witness ==
  /\ last.op \in {"Fields", "EnvNames", "EnvToMap", "BindCLI"}
  /\ ValidSpec
  /\ IsErr(last.err)
  /\ FirstFailingMember = 2
  /\ Declared.members[1].type.kind = "ptr"
  /\ last.pre[1][1] = Nil
  /\ spec.val[1][1] # Nil

====
